---- MODULE Spec2Model ----
(***************************************************************************)
(* The per-connection engine of the asws WebSocket server                  *)
(* (websocket/server.py, client.py, stream/reader.py, stream/writer.py,    *)
(* reasons.py) as a state machine.                                         *)
(*                                                                         *)
(* The asyncio event loop is modelled as it schedules: a FIFO queue of     *)
(* ready tasks (ready), the task that is running (cur), and tasks that     *)
(* wait on an event (their field wait).  A task runs from one suspension   *)
(* point to the next without interruption; the peer, the transport and the *)
(* application act only between two task steps.  The inbound and outbound  *)
(* wires are sequences of bytes.                                           *)
(***************************************************************************)
EXTENDS Integers, Sequences, FiniteSets, TLC

\* ------------------------------------------------------------------ bounds
\* frames the peer sends in one connection in scenarios "msg", "ctl" and
\* "cls" (one fewer in "big"; "app", "slow" and "raw" have a single frame)
MaxFrames == 3
\* continuation frames the peer sends after the first frame in scenario "flood"
MaxContFrames == 13
\* calls the application makes on the connection ("app", "slow", "raw")
MaxAppOps == 1
\* times the transport's write side pauses, so that drain() blocks
MaxPauses == 1
\* bytes of the reason text of a Close payload handed to Reason.from_bytes
MaxReasonLen == 1
\* the largest limit of a Buffer, and the bytes its producer has to write
MaxLimit == 3
MaxStream == 5
\* the largest chunksize and buffer_multiplier of WebSocketWriter.feed
MaxChunk == 2
MaxMultiplier == 2
\* full chunks of BUFFER_SIZE bytes in the longest payload of a single frame
MaxChunks == 14
\* peers that connect to one server
MaxPeers == 2
\* bytes by which a payload handed to the writer may exceed MAX_LEN_7
MaxOver == 2

\* ------------------------------------------------------- program constants
BUFFER_SIZE == 1024
QUE_MAXSIZE == 12
MASK_BIT == 128
FIN_BIT == 128
RSV_BITS == 112
OP_CODE_BITS == 15
MAX_LEN_7 == 125
MAX_LEN_16 == 65535
LENGTH_OVER_7 == 126
LENGTH_OVER_16 == 127
HEADER_FIN_SET == 128

\* DataType values (enums.py)
OP_CONTINUATION == 0
OP_TEXT == 1
OP_BINARY == 2
OP_CLOSE == 8
OP_PING == 9
OP_PONG == 10

\* Reasons (reasons.py): the close codes as 16-bit integers; on the wire and
\* in Reason.code they are the two big-endian bytes CodeBytes(c).
NORMAL == 1000
PROTOCOL_ERROR == 1002
NO_STATUS == 1005
INCONSISTENT_DATA == 1007
POLICY_VIOLATION == 1008
INVALID_CODES == {1004, 1005, 1006, 1015}
\* range(1016, 3000) taken with its end included
UNDEFINED_CODES_EndIncluded == (1012..1014) \cup (1016..3000)

\* range(1012, 1015) and range(1016, 3000)
UNDEFINED_CODES == (1012..1014) \cup (1016..2999)

\* ------------------------------------------------------------------- bytes
Byte == 0..255

RECURSIVE BitAnd(_, _)
BitAnd(a, b) ==
  IF a = 0 \/ b = 0 THEN 0
  ELSE (IF a % 2 = 1 /\ b % 2 = 1 THEN 1 ELSE 0) + 2 * BitAnd(a \div 2, b \div 2)

RECURSIVE BitXor(_, _)
BitXor(a, b) ==
  IF a = 0 THEN b
  ELSE IF b = 0 THEN a
  ELSE ((a + b) % 2) + 2 * BitXor(a \div 2, b \div 2)

CodeBytes(c) == <<c \div 256, c % 256>>
CodeOf(bs) == bs[1] * 256 + bs[2]

\* length.to_bytes(n, 'big')
RECURSIVE ToBytes(_, _)
ToBytes(v, n) == IF n = 0 THEN <<>> ELSE Append(ToBytes(v \div 256, n - 1), v % 256)

\* the bytes of a length taken least significant first
RECURSIVE FromBytesLittleEndian(_)
FromBytesLittleEndian(bs) ==
  IF bs = <<>> THEN 0
  ELSE bs[1] + 256 * FromBytesLittleEndian(Tail(bs))

\* struct.unpack('!H', data) / struct.unpack('!Q', data)
RECURSIVE FromBytes(_)
FromBytes(bs) ==
  IF bs = <<>> THEN 0
  ELSE 256 * FromBytes(SubSeq(bs, 1, Len(bs) - 1)) + bs[Len(bs)]

Take(s, n) == SubSeq(s, 1, IF n < Len(s) THEN n ELSE Len(s))
Drop(s, n) == SubSeq(s, n + 1, Len(s))
Min(a, b) == IF a < b THEN a ELSE b

\* unmasking with the key index shifted by one
UnmaskWrongIndex(data, length, mask) ==
  [i \in 1..Len(data) |-> IF i <= length THEN BitXor(data[i], mask[(i % 4) + 1]) ELSE data[i]]

\* for i in range(length): data[i] ^= mask[i % 4]     (process_text/_binary)
Unmask(data, length, mask) ==
  [i \in 1..Len(data) |->
     IF i <= length THEN BitXor(data[i], mask[((i - 1) % 4) + 1]) ELSE data[i]]

\* ------------------------------------------------------------------- UTF-8
\* codecs.getincrementaldecoder('utf8'): the decoder keeps the bytes of an
\* incomplete trailing sequence; what it will accept next is determined by
\* the state below.  0: between characters; 1, 2, 3: that many continuation
\* bytes are due; 4: after E0; 5: after ED; 6: after F0; 7: after F4;
\* 8: a malformed sequence was met (decode raised UnicodeDecodeError).
DecBad == 8

IsCont(b) == b >= 128 /\ b <= 191

DecStep(s, b) ==
  CASE s = 0 ->
         (IF b < 128 THEN 0
          ELSE IF b >= 194 /\ b <= 223 THEN 1
          ELSE IF b = 224 THEN 4
          ELSE IF b = 237 THEN 5
          ELSE IF b >= 225 /\ b <= 239 THEN 2
          ELSE IF b = 240 THEN 6
          ELSE IF b >= 241 /\ b <= 243 THEN 3
          ELSE IF b = 244 THEN 7
          ELSE DecBad)
    [] s = 1 -> (IF IsCont(b) THEN 0 ELSE DecBad)
    [] s = 2 -> (IF IsCont(b) THEN 1 ELSE DecBad)
    [] s = 3 -> (IF IsCont(b) THEN 2 ELSE DecBad)
    [] s = 4 -> (IF b >= 160 /\ b <= 191 THEN 1 ELSE DecBad)
    [] s = 5 -> (IF b >= 128 /\ b <= 159 THEN 1 ELSE DecBad)
    [] s = 6 -> (IF b >= 144 /\ b <= 191 THEN 2 ELSE DecBad)
    [] s = 7 -> (IF b >= 128 /\ b <= 143 THEN 2 ELSE DecBad)
    [] OTHER -> DecBad

\* the decoder run over data[lo..hi] from state s (halving keeps the
\* evaluation shallow for a 1024-byte chunk)
RECURSIVE DecRange(_, _, _, _)
DecRange(s, data, lo, hi) ==
  IF lo > hi THEN s
  ELSE IF lo = hi THEN DecStep(s, data[lo])
  ELSE LET mid == (lo + hi) \div 2
           left == DecRange(s, data, lo, mid)
       IN  IF left = DecBad THEN DecBad ELSE DecRange(left, data, mid + 1, hi)

\* self.decoder.decode(data): the state after data; DecBad when it raises
Decode(s, data) == DecRange(s, data, 1, Len(data))

\* a final decode that accepts an incomplete trailing sequence
DecodeFinalLenient(s) == FALSE

\* self.decoder.decode(b'', True) raises iff a sequence is left incomplete
DecodeFinalRaises(s) == s # 0

\* the whole byte string is valid, complete UTF-8
ValidUtf8(bs) == Decode(0, bs) = 0


\* ------------------------------------------------------- the peer's frames
\* A frame as the peer means it; Encode gives its bytes on the wire
\* (RFC 6455 section 5.2, the layout WebSocketReader.feed parses).
Frame(fin, rsv, op, masked, payload) ==
  [fin |-> fin, rsv |-> rsv, op |-> op, masked |-> masked, payload |-> payload]

\* the peer's masking key for its n-th frame: consecutive frames differ
MaskKey(n) == IF n % 2 = 1 THEN <<55, 250, 33, 61>> ELSE <<1, 2, 3, 4>>

LenField(maskbit, n) ==
  IF n <= MAX_LEN_7 THEN <<maskbit + n>>
  ELSE IF n <= MAX_LEN_16 THEN <<maskbit + 126>> \o ToBytes(n, 2)
  ELSE <<maskbit + 127>> \o ToBytes(n, 8)

\* the peer masks octet i of the payload with octet i mod 4 of the key (RFC 6455, 5.3)
Mask(payload, key) ==
  [i \in 1..Len(payload) |-> BitXor(payload[i], key[((i - 1) % 4) + 1])]

Encode(f, key) ==
  <<f.fin * 128 + f.rsv * 16 + f.op>>
  \o (IF f.masked
      THEN LenField(128, Len(f.payload)) \o key \o Mask(f.payload, key)
      ELSE LenField(0, Len(f.payload)) \o f.payload)

\* payloads
Filler(n) == [i \in 1..n |-> 97]
\* 1025 bytes of valid UTF-8 with a two-byte character across the boundary
\* of the first 1024-byte chunk
BigText == [i \in 1..(BUFFER_SIZE + 1) |->
              IF i = BUFFER_SIZE THEN 195 ELSE IF i = BUFFER_SIZE + 1 THEN 169
              ELSE 97 + (i % 5)]
BigBinary == [i \in 1..(2 * BUFFER_SIZE + 1) |-> (i * 7) % 256]

TextFrame(fin, p) == Frame(fin, 0, OP_TEXT, TRUE, p)
BinFrame(fin, p) == Frame(fin, 0, OP_BINARY, TRUE, p)
ContFrame(fin, p) == Frame(fin, 0, OP_CONTINUATION, TRUE, p)
PingFrame(fin, p) == Frame(fin, 0, OP_PING, TRUE, p)
PongFrame(fin, p) == Frame(fin, 0, OP_PONG, TRUE, p)
CloseFrame(fin, p) == Frame(fin, 0, OP_CLOSE, TRUE, p)

\* The scenarios bound what the peer and the application do in one
\* connection; each is a family of inputs, and Init picks one.
Scenarios == {"msg", "ctl", "cls", "app", "slow", "raw", "flood", "big", "ping", "term", "frag"}

\* messages and their fragments; UTF-8 sequences cut by frame boundaries
FramesMsg ==
  { TextFrame(1, <<97>>), TextFrame(0, <<195>>), TextFrame(1, <<255>>),
    BinFrame(0, <<255>>), ContFrame(1, <<169>>), ContFrame(1, <<>>) }

\* control frames, inside and outside of a message
FramesCtl ==
  { PingFrame(1, <<97>>), PingFrame(0, <<>>), PingFrame(1, Filler(MAX_LEN_7 + 1)),
    PongFrame(1, <<>>), TextFrame(0, <<97>>) }

\* close frames and frames that are rejected
FramesCls ==
  { CloseFrame(1, <<>>), CloseFrame(1, CodeBytes(1001)), CloseFrame(1, CodeBytes(1004)),
    TextFrame(0, <<255>>), Frame(1, 0, 3, TRUE, <<97>>), Frame(1, 4, OP_TEXT, TRUE, <<97>>),
    Frame(1, 0, OP_TEXT, FALSE, <<97>>) }

\* frames met by calls of the application
FramesApp ==
  { TextFrame(1, <<255>>), PingFrame(1, <<97>>), PingFrame(1, Filler(MAX_LEN_7 + 1)),
    CloseFrame(1, <<>>), CloseFrame(0, CodeBytes(1001)) }

\* frames answered while the transport is paused
FramesSlow == { CloseFrame(1, <<>>), TextFrame(1, <<255>>) }

\* frames met by the application's direct use of the writer
FramesRaw == { CloseFrame(1, <<>>), TextFrame(0, <<97>>), PongFrame(0, <<97>>) }

\* a Ping between the fragments of a text message
FramesPing ==
  { TextFrame(0, <<195>>), PingFrame(1, <<112, 105, 110, 103>>), ContFrame(1, <<169>>) }

\* frames that end the connection inside a well-formed text message
FramesTerm ==
  { TextFrame(0, <<97>>), Frame(1, 0, 3, TRUE, <<>>), CloseFrame(1, <<>>),
    Frame(1, 0, OP_CONTINUATION, FALSE, <<97>>) }

\* payloads longer than one chunk
FramesBig ==
  { TextFrame(0, BigText), TextFrame(1, BigText), BinFrame(1, BigBinary),
    ContFrame(1, <<97>>) }

\* what the peer may send next, given the frames it has sent
NextFrames(sc, sent) ==
  CASE sc = "msg" -> IF Len(sent) < MaxFrames THEN FramesMsg ELSE {}
    [] sc = "ctl" -> IF Len(sent) < MaxFrames THEN FramesCtl ELSE {}
    [] sc = "cls" -> IF Len(sent) < MaxFrames THEN FramesCls ELSE {}
    [] sc = "app" -> IF sent = <<>> THEN FramesApp ELSE {}
    [] sc = "slow" -> IF sent = <<>> THEN FramesSlow ELSE {}
    [] sc = "raw" -> IF sent = <<>> THEN FramesRaw ELSE {}
    [] sc = "big" -> IF Len(sent) < MaxFrames - 1 THEN FramesBig ELSE {}
    [] sc = "ping" -> IF Len(sent) < MaxFrames THEN FramesPing ELSE {}
    [] sc = "term" -> IF Len(sent) < MaxFrames THEN FramesTerm ELSE {}
    [] sc = "frag" -> IF sent = <<>> THEN {PingFrame(1, <<97>>)} ELSE {}
    [] sc = "flood" ->
         IF sent = <<>> THEN {TextFrame(0, <<255>>), TextFrame(0, <<97>>)}
         ELSE IF Len(sent) <= MaxContFrames /\ sent[Len(sent)].fin = 0
              THEN {ContFrame(0, <<>>), ContFrame(1, <<>>)}
              ELSE {}
    [] OTHER -> {}

\* ------------------------------------------------------- close reasons
\* the reason strings of client.py and reasons.py, as their UTF-8 bytes
R_ExpectedContinuation ==
  <<101, 120, 112, 101, 99, 116, 101, 100, 32, 99, 111, 110, 116, 105, 110, 117, 97,
    116, 105, 111, 110, 32, 102, 114, 97, 109, 101>>
R_ExpectedNone ==
  <<101, 120, 112, 101, 99, 116, 101, 100, 32, 110, 111, 110, 101, 32, 102, 114, 97,
    109, 101>>
R_Fragmented ==
  <<102, 114, 97, 103, 109, 101, 110, 116, 101, 100, 32, 99, 111, 110, 116, 114, 111,
    108, 32, 102, 114, 97, 109, 101>>
R_AfterClose ==
  <<99, 111, 110, 116, 114, 111, 108, 32, 102, 114, 97, 109, 101, 32, 97, 102, 116,
    101, 114, 32, 99, 108, 111, 115, 101>>
R_TooLong ==
  <<99, 111, 110, 116, 114, 111, 108, 32, 102, 114, 97, 109, 101, 32, 116, 111, 111,
    32, 108, 111, 110, 103>>
R_InvalidOpcode ==
  <<105, 110, 118, 97, 108, 105, 100, 32, 111, 112, 99, 111, 100, 101>>
R_Rsv == <<82, 83, 86, 32, 98, 105, 116, 40, 115, 41, 32, 115, 101, 116>>
R_InvalidCodeLength ==
  <<105, 110, 118, 97, 108, 105, 100, 32, 99, 108, 111, 115, 101, 32, 99, 111, 100,
    101, 32, 108, 101, 110, 103, 116, 104>>
R_InvalidCode ==
  <<105, 110, 118, 97, 108, 105, 100, 32, 99, 108, 111, 115, 101, 32, 99, 111, 100,
    101>>
R_InvalidUtf8 ==
  <<105, 110, 118, 97, 108, 105, 100, 32, 117, 116, 102, 56, 32, 105, 110, 32, 99,
    108, 111, 115, 101, 32, 114, 101, 97, 115, 111, 110>>
\* adone's f"{e.object[e.start:e.end]} at {e.start}-{e.end}: {e.reason}"; the
\* text depends on the error, here the one for a malformed start byte
R_DecodeError ==
  <<105, 110, 118, 97, 108, 105, 100, 32, 115, 116, 97, 114, 116, 32, 98, 121, 116,
    101>>

\* Reason.from_bytes(data, length): <<code, reason>>
Reason_from_bytes(data, length) ==
  IF length = 0 THEN <<NO_STATUS, <<>> >>
  ELSE IF length < 2 THEN <<PROTOCOL_ERROR, R_InvalidCodeLength>>
  ELSE LET code == CodeOf(Take(data, 2))
       IN  IF code < NORMAL \/ code \in INVALID_CODES \/ code \in UNDEFINED_CODES
           THEN <<PROTOCOL_ERROR, R_InvalidCode>>
           ELSE IF ValidUtf8(Drop(data, 2))
                THEN <<code, Drop(data, 2)>>
                ELSE <<PROTOCOL_ERROR, R_InvalidUtf8>>


\* ------------------------------------------------------------------- state
VARIABLES
  scen,          \* the scenario of this connection
  inbuf,         \* bytes received from the peer and not yet read (the transport's StreamReader)
  peer,          \* the peer: frames sent so far, bytes of the current frame still to arrive
  appops,        \* calls the application has made
  pauses,        \* times the transport has paused writing
  paused,        \* the transport's write buffer is over its high-water mark
  out,           \* what was written to the transport, one entry per writer.write call
  tclosed,       \* the transport writer was closed (socket_connect's finally)
  state,         \* Client.state
  continuation,  \* Client.continuation
  latch,         \* Client.server_has_initiated_close
  cur_reader,    \* Client._reader (an index of readers, 0: None)
  last_message,  \* Client.tick()'s timestamp: inbound frames seen
  read_task,     \* Client.read_task (a task, 0: None)
  wclosed,       \* WebSocketWriter.closed
  lock,          \* WebSocketWriter.write_lock: the task holding it, 0 when free
  lockq,         \* the tasks waiting for write_lock, in order
  readers,       \* the WebSocketReader objects created so far
  tasks,         \* the asyncio tasks created so far
  ready,         \* the event loop's queue of tasks ready to run
  cur,           \* the running task, 0 between two task steps
  todo,          \* ready tasks still to run in this iteration of the event loop
  nread,         \* history: bytes read from the transport
  log,           \* history: how each inbound frame was handled
  started,       \* history: the frames whose on_message task has started, in order
  latchBy,       \* history: the Client.close call that set the latch
  fb,            \* a call of Reason.from_bytes: its argument and what it returned
  buffer,        \* a Buffer object
  bufio,         \* the producer and the consumer of the Buffer, and what they moved
  wr,            \* a WebSocketWriter called on its own: the call, the frames written, closed
  fw,            \* WebSocketWriter.feed's producer and its feed_worker on the Buffer
  ck,            \* one frame's payload on its way through feed's chunks and the processor
  srv,           \* a WebSocketServer: its clients mapping and the tasks of its connections
  hs             \* a handshake: the request, the response written, the state returned

vars == <<scen, inbuf, peer, appops, pauses, paused, out, tclosed, state, continuation,
          latch, cur_reader, last_message, read_task, wclosed, lock, lockq, readers, tasks, ready,
          cur, todo, nread, log, started, latchBy, fb, buffer, bufio, wr, fw, ck, srv, hs>>

\* the connection, and the objects exercised on their own
gConn == <<scen, inbuf, peer, appops, pauses, paused, out, tclosed, state, continuation,
           latch, cur_reader, last_message, read_task, wclosed, lock, lockq, readers, tasks,
           ready, cur, todo, nread, log, started, latchBy>>
gObj == <<wr, fw, ck, srv, hs>>
gLib == <<fb, buffer, bufio, gObj>>

gEnv == <<scen, peer, appops, pauses, paused>>
gWire == <<inbuf, nread>>
gOut == <<out, tclosed>>
gClient == <<state, continuation, latch, cur_reader, last_message, read_task, latchBy>>
gWriter == <<wclosed, lock, lockq>>
gHist == <<log, started>>

NoWait == [on |-> "none", id |-> 0]
WaitOn(on, id) == [on |-> on, id |-> id]

\* a task: its coroutine (kind), where it stands (pc, stk: the return points
\* of the calls in progress), what it waits for, and its local variables
BaseTask ==
  [kind |-> "none", pc |-> "done", stk |-> <<>>, wait |-> NoWait, rid |-> 0,
   fr |-> 0, hdr |-> 0, aw |-> 0, mflag |-> FALSE, left |-> 0, flen |-> 0,
   phase |-> 0, mask |-> <<>>, pend |-> <<>>, code |-> 0, reason |-> <<>>,
   data |-> <<>>, res |-> "none", val |-> 0, cancel |-> FALSE]

NewTask(kind, pc, rid, fr) ==
  [BaseTask EXCEPT !.kind = kind, !.pc = pc, !.rid = rid, !.fr = fr]

CloseTask(kind, pc, fr, code, reason) ==
  [BaseTask EXCEPT !.kind = kind, !.pc = pc, !.fr = fr, !.code = code, !.reason = reason]

\* a WebSocketReader: data_type, the decoder, the chunk queue, reading, the
\* StreamReader's buffer, EOF flag and exception, and its processor task.
\* History: recv and recvEnd are what the consumer of the stream has read and
\* how its read ended, excset whether set_exception was called, dones the
\* calls of done(), cleaneof whether feed_eof was called with no exception set.
NewReader(kind, proc, ismsg) ==
  [kind |-> kind, dec |-> 0, que |-> <<>>, reading |-> TRUE, buf |-> <<>>,
   eof |-> FALSE, exc |-> "none", proc |-> proc, msg |-> ismsg,
   recv |-> <<>>, recvEnd |-> "none", excset |-> FALSE, dones |-> 0,
   cleaneof |-> FALSE]

\* how the peer's bytes arrive: each frame in one piece, or its first byte
\* ahead of the rest
Splits(sc) == IF sc \in {"ctl", "cls"} THEN BOOLEAN ELSE {FALSE}

\* history of one inbound frame: continuation, _reader and the latch when its
\* first byte was dispatched; the branch its handler took; the reader it was
\* fed to; the task of close_with_read's close; whether the handler has
\* returned and how many bytes had been read from the transport by then;
\* whether handle_close found the latch unset, and the code it replied with;
\* continuation and _reader when the handler returned, and whether done()
\* or set_exception had been called on _reader by a handler, before and after
NoLog == [cont |-> "NONE", cur |-> 0, latch0 |-> FALSE, branch |-> "none", rid |-> 0,
          ctask |-> 0, ret |-> FALSE, pos |-> 0, initiated |-> FALSE, code |-> 0,
          contR |-> "NONE", curR |-> 0, fin0 |-> FALSE, finR |-> FALSE]

\* Client.__init__ and socket_connect's start, for a peer of scenario sc
InitConn(sc) ==
  /\ scen = sc
  /\ inbuf = <<>>
  /\ peer \in {[sent |-> <<>>, pending |-> <<>>, split |-> b] : b \in Splits(sc)}
  /\ appops = 0
  /\ pauses = 0
  /\ paused = FALSE
  /\ out = <<>>
  /\ tclosed = FALSE
  /\ state = "OPEN"
  /\ continuation = "NONE"
  /\ latch = FALSE
  /\ cur_reader = 0
  /\ last_message = 0
  /\ read_task = 0
  /\ wclosed = FALSE
  /\ lock = 0
  /\ lockq = <<>>
  /\ readers = <<>>
  /\ tasks = <<NewTask("main", "loop", 0, 0)>>
  /\ ready = <<1>>
  /\ cur = 0
  /\ todo = 0
  /\ nread = 0
  /\ log = <<>>
  /\ started = <<>>
  /\ latchBy = [tid |-> 0, fr |-> 0, code |-> 0]

\* no writer, feed, chunked payload, server or handshake on its own
NoObj ==
  /\ wr = <<>>
  /\ fw = <<>>
  /\ ck = <<>>
  /\ srv = <<>>
  /\ hs = <<>>

\* no call of from_bytes, no Buffer
NoLib ==
  /\ fb = <<>>
  /\ buffer = <<>>
  /\ bufio = <<>>
  /\ NoObj

Init ==
  /\ \E sc \in Scenarios : InitConn(sc)
  /\ NoLib

\* -------------------------------------------------------------- event loop
\* BaseEventLoop._run_once: events are polled, then the tasks that are ready
\* at that moment run, each to its next suspension point; tasks made ready
\* meanwhile run in the next iteration.
\* the task that runs in this step: the running one, or the head of ready
Self == IF cur # 0 THEN cur ELSE IF todo > 0 THEN Head(ready) ELSE 0
Rdy == IF cur # 0 THEN ready ELSE Tail(ready)
Me == tasks[Self]
At(k, p) == Self # 0 /\ tasks[Self].kind = k /\ tasks[Self].pc = p
AtPc(p) == Self # 0 /\ tasks[Self].pc = p

\* the pair (tasks, ready) a step builds
S0 == [t |-> tasks, r |-> Rdy]
SetT(S, tid, rec) == [S EXCEPT !.t[tid] = rec]
NewId(S) == Len(S.t) + 1
Spawn(S, rec) == [t |-> Append(S.t, rec), r |-> Append(S.r, Len(S.t) + 1)]

RECURSIVE SortedSeq(_)
SortedSeq(W) ==
  IF W = {} THEN <<>>
  ELSE LET m == CHOOSE x \in W : \A y \in W : x <= y
       IN  <<m>> \o SortedSeq(W \ {m})

\* the tasks waiting for the event become ready, in the order they were created
Wake(S, on, id) ==
  LET W == {x \in DOMAIN S.t : S.t[x].wait = WaitOn(on, id)}
  IN  [t |-> [x \in DOMAIN S.t |-> IF x \in W THEN [S.t[x] EXCEPT !.wait = NoWait]
                                               ELSE S.t[x]],
       r |-> S.r \o SortedSeq(W)]

WakeOne(S, tid) ==
  [t |-> [S.t EXCEPT ![tid].wait = NoWait], r |-> Append(S.r, tid)]

\* the task ends (its result or exception is set) and its awaiters wake
Finish(S, tid, res, val) ==
  Wake(SetT(S, tid, [BaseTask EXCEPT !.kind = S.t[tid].kind, !.rid = S.t[tid].rid,
                                     !.fr = S.t[tid].fr, !.code = S.t[tid].code,
                                     !.res = res, !.val = val]),
       "task", tid)

IsDone(t) == t.pc = "done"

\* call a coroutine of the same task: continue at pc, come back at ret
Call(t, pc, ret) == [t EXCEPT !.pc = pc, !.stk = <<ret>> \o t.stk]
Return(t) == [t EXCEPT !.pc = Head(t.stk), !.stk = Tail(t.stk)]

\* an exception leaves the coroutine: socket_connect goes to its finally,
\* any other task ends with the exception
Raise(S, tid) ==
  IF S.t[tid].kind = "main"
  THEN SetT(S, tid, [S.t[tid] EXCEPT !.pc = "finally", !.stk = <<>>, !.res = "exc"])
  ELSE Finish(S, tid, "exc", 0)
RaiseKeeps(S, tid) == IF S.t[tid].kind = "main" THEN tid ELSE 0

Commit(S, c) ==
  /\ tasks' = S.t
  /\ ready' = S.r
  /\ cur' = c
  /\ todo' = (IF cur = 0 THEN todo - 1 ELSE todo)

\* the loop is between two iterations: events may arrive
Polling == cur = 0 /\ todo = 0

\* an event handled at the poll: tasks may become ready
Polled(S) ==
  /\ tasks' = S.t
  /\ ready' = S.r
  /\ UNCHANGED <<cur, todo>>

\* ntodo = len(self._ready): the next iteration starts
RunOnce ==
  /\ Polling
  /\ ready # <<>>
  /\ todo' = Len(ready)
  /\ UNCHANGED <<gLib, scen, inbuf, peer, appops, pauses, paused, out, tclosed, state, continuation,
                 latch, cur_reader, last_message, read_task, wclosed, lock, lockq, readers,
                 tasks, ready, cur, nread, log, started, latchBy>>


\* task tid leaves the coroutine it is in: back to its caller, or the task ends
RetS(S, tid, t) ==
  IF t.stk = <<>> THEN Finish(SetT(S, tid, t), tid, "ok", t.val)
  ELSE SetT(S, tid, Return(t))
RetC(tid, t) == IF t.stk = <<>> THEN 0 ELSE tid

\* the running task suspends until the event
BlockOn(on, id) == Commit(SetT(S0, Self, [Me EXCEPT !.wait = WaitOn(on, id)]), 0)

\* Task.cancel()
Cancel(S, tid) ==
  IF IsDone(S.t[tid]) THEN S
  ELSE IF S.t[tid].wait # NoWait
       THEN [t |-> [S.t EXCEPT ![tid].wait = NoWait, ![tid].cancel = TRUE],
             r |-> Append(S.r, tid)]
       ELSE [S EXCEPT !.t[tid].cancel = TRUE]

\* ------------------------------------------------------------ environment
SE == [t |-> tasks, r |-> ready]

\* the peer sends its next frame: all of it at once, or (peer.split) its
\* first byte ahead of the rest
PeerSend ==
  /\ Polling
  /\ ~tclosed
  /\ inbuf = <<>>
  /\ peer.pending = <<>>
  /\ \E f \in NextFrames(scen, peer.sent) :
       LET bytes == Encode(f, MaskKey(Len(peer.sent)))
       IN  /\ inbuf' = (IF peer.split THEN <<Head(bytes)>> ELSE bytes)
           /\ peer' = [peer EXCEPT !.sent = Append(@, f),
                                   !.pending = IF peer.split THEN Tail(bytes) ELSE <<>>]
  /\ Polled(Wake(SE, "inbuf", 0))
  /\ UNCHANGED <<gLib, scen, appops, pauses, paused, nread, gOut, gClient, gWriter, gHist, readers>>

\* the rest of a frame whose first byte went ahead arrives
PeerRest ==
  /\ Polling
  /\ peer.pending # <<>>
  /\ inbuf' = inbuf \o peer.pending
  /\ peer' = [peer EXCEPT !.pending = <<>>]
  /\ Polled(Wake(SE, "inbuf", 0))
  /\ UNCHANGED <<gLib, scen, appops, pauses, paused, nread, gOut, gClient, gWriter, gHist, readers>>

\* ------------------------------------------------- WebSocketReader objects
\* StreamReader.set_exception
SetException(rs, r, e) == [rs EXCEPT ![r].exc = e, ![r].excset = TRUE]

\* WebSocketReader.done(): ensure_future(self.adone())
Done_S(S, r, fr) == Spawn(S, NewTask("adone", "adone", r, fr))
Done_R(rs, r) == [rs EXCEPT ![r].dones = @ + 1]

\* Client.ensure_clean_close
EnsureCleanClose_S(S, fr) ==
  IF continuation # "NONE" THEN Done_S(Wake(S, "rdata", cur_reader), cur_reader, fr) ELSE S
EnsureCleanClose_R(rs) ==
  IF continuation # "NONE" THEN Done_R(SetException(rs, cur_reader, "closing"), cur_reader)
  ELSE rs

\* done() or set_exception has been called on the current reader by a handler
Finalized(rs) ==
  /\ cur_reader # 0
  /\ rs[cur_reader].dones > 0 \/ rs[cur_reader].exc \in {"closing", "unexpected"}

\* WebSocketReader(kind, client, loop): the object and its processor task
NewReader_S(S, rs, fr) == Spawn(S, NewTask("proc", "p_start", Len(rs) + 1, fr))
NewReader_R(S, rs, kind, ismsg) == Append(rs, NewReader(kind, NewId(S), ismsg))


\* ------------------------------------------------- Server.socket_connect
\* a dispatch table that sends Continuation frames to the data handler
HandlerPcContinuationAsData(op) ==
  CASE op = OP_CONTINUATION -> "hd"
    [] op = OP_TEXT -> "hd"
    [] op = OP_BINARY -> "hd"
    [] op = OP_CLOSE -> "hc"
    [] op = OP_PING -> "hpp"
    [] op = OP_PONG -> "hpp"
    [] OTHER -> "hundef"

\* HANDLERS[data & OP_CODE_BITS]
HandlerPc(op) ==
  CASE op = OP_CONTINUATION -> "hcont"
    [] op = OP_TEXT -> "hd"
    [] op = OP_BINARY -> "hd"
    [] op = OP_CLOSE -> "hc"
    [] op = OP_PING -> "hpp"
    [] op = OP_PONG -> "hpp"
    [] OTHER -> "hundef"

\* while client.state != State.CLOSING: client.read_task = create_task(readexactly(1))
M_Loop ==
  /\ At("main", "loop")
  /\ IF state = "CLOSING"
     THEN Commit(SetT(S0, Self, [Me EXCEPT !.pc = "finally"]), Self)
     ELSE Commit(SetT(Spawn(S0, NewTask("read", "rt", 0, Me.fr)), Self,
                      [Me EXCEPT !.pc = "got", !.aw = NewId(S0),
                                 !.wait = WaitOn("task", NewId(S0))]), 0)
  /\ read_task' = (IF state = "CLOSING" THEN read_task ELSE NewId(S0))
  /\ UNCHANGED <<gLib, gEnv, gWire, gOut, state, continuation, latch, cur_reader, last_message,
                 latchBy, gWriter, gHist, readers>>

\* reader.readexactly(1), as the task client.read_task
ReadTask ==
  /\ At("read", "rt")
  /\ IF inbuf = <<>>
     THEN /\ BlockOn("inbuf", 0)
          /\ UNCHANGED gWire
     ELSE /\ inbuf' = Tail(inbuf)
          /\ nread' = nread + 1
          /\ Commit(Finish(S0, Self, "ok", Head(inbuf)), 0)
  /\ UNCHANGED <<gLib, gEnv, gOut, gClient, gWriter, gHist, readers>>

\* Client.tick(): the inbound frame header updates the timestamp
tick(t) == t + 1

\* data = (await client.read_task)[0]; client.tick(); the RSV check; dispatch
M_Got ==
  /\ At("main", "got")
  /\ LET data == tasks[Me.aw].val
         n == Len(log) + 1
         rsv == BitAnd(data, RSV_BITS) > 0
         me == [Me EXCEPT !.fr = n, !.hdr = data, !.aw = 0]
     IN  /\ last_message' = tick(last_message)
         /\ log' = Append(log, [NoLog EXCEPT !.cont = continuation, !.cur = cur_reader,
                                             !.latch0 = latch, !.fin0 = Finalized(readers),
                                             !.branch = IF rsv THEN "rsv" ELSE "none"])
         /\ IF rsv
            THEN /\ readers' = EnsureCleanClose_R(readers)
                 /\ Commit(SetT(EnsureCleanClose_S(S0, n), Self,
                                Call([me EXCEPT !.code = PROTOCOL_ERROR, !.reason = R_Rsv],
                                     "cwr", "h_ret")), Self)
            ELSE /\ readers' = readers
                 /\ Commit(SetT(S0, Self,
                                [me EXCEPT !.pc = HandlerPc(BitAnd(data, OP_CODE_BITS))]), Self)
  /\ UNCHANGED <<gLib, gEnv, gWire, gOut, gWriter, started, state, continuation, latch, cur_reader,
                 read_task, latchBy>>

\* the handler has returned: back to the loop head
M_Return ==
  /\ At("main", "h_ret")
  /\ log' = [log EXCEPT ![Me.fr].ret = TRUE, ![Me.fr].pos = nread,
                         ![Me.fr].contR = continuation, ![Me.fr].curR = cur_reader,
                         ![Me.fr].finR = Finalized(readers)]
  /\ Commit(SetT(S0, Self, [Me EXCEPT !.pc = "loop", !.hdr = 0, !.rid = 0, !.aw = 0,
                                      !.val = 0, !.code = 0, !.reason = <<>>,
                                      !.data = <<>>]), Self)
  /\ UNCHANGED <<gLib, gEnv, gWire, gOut, gClient, gWriter, started, readers>>

\* finally: writer.close(); self.delete_client(addr, port)
M_Finally ==
  /\ At("main", "finally")
  /\ tclosed' = TRUE
  /\ Commit(Finish(Wake(S0, "drain", 0), Self, Me.res, 0), 0)
  /\ UNCHANGED <<gLib, gEnv, gWire, out, gClient, gWriter, gHist, readers>>

\* ---------------------------------------------------- WebSocketReader.feed
\* the reset of feed's locals when it returns length
FeedReturn(t) ==
  Return([t EXCEPT !.val = t.flen, !.mflag = FALSE, !.left = 0, !.flen = 0,
                   !.phase = 0, !.mask = <<>>, !.pend = <<>>])

FeedAfterLen(t, length) ==
  [t EXCEPT !.flen = length, !.left = length, !.val = 0,
            !.pc = IF t.mflag THEN "feed_mask" ELSE "feed_nomask"]

\* data = await reader.readexactly(1): the mask flag and the 7-bit length
Feed_B1 ==
  /\ AtPc("feed_b1")
  /\ IF inbuf = <<>>
     THEN /\ BlockOn("inbuf", 0)
          /\ UNCHANGED gWire
     ELSE LET b == Head(inbuf)
              t1 == [Me EXCEPT !.mflag = (BitAnd(b, MASK_BIT) # 0)]
              length == b - BitAnd(b, MASK_BIT)
          IN  /\ inbuf' = Tail(inbuf)
              /\ nread' = nread + 1
              /\ Commit(SetT(S0, Self,
                             IF length >= 126
                             THEN [t1 EXCEPT !.pc = "feed_ext",
                                             !.val = IF length = 126 THEN 2 ELSE 8]
                             ELSE FeedAfterLen(t1, length)), Self)
  /\ UNCHANGED <<gLib, gEnv, gOut, gClient, gWriter, gHist, readers>>

\* length 126 / 127: the 2 or 8 bytes of the extended length
Feed_Ext ==
  /\ AtPc("feed_ext")
  /\ IF Len(inbuf) < Me.val
     THEN /\ BlockOn("inbuf", 0)
          /\ UNCHANGED gWire
     ELSE /\ inbuf' = Drop(inbuf, Me.val)
          /\ nread' = nread + Me.val
          /\ Commit(SetT(S0, Self, FeedAfterLen(Me, FromBytes(Take(inbuf, Me.val)))), Self)
  /\ UNCHANGED <<gLib, gEnv, gOut, gClient, gWriter, gHist, readers>>

\* not mask_flag: the payload is read and an Exception is raised
Feed_NoMask ==
  /\ AtPc("feed_nomask")
  /\ IF Len(inbuf) < Me.left
     THEN /\ BlockOn("inbuf", 0)
          /\ UNCHANGED gWire
     ELSE /\ inbuf' = Drop(inbuf, Me.left)
          /\ nread' = nread + Me.left
          /\ Commit(Raise(S0, Self), RaiseKeeps(S0, Self))
  /\ UNCHANGED <<gLib, gEnv, gOut, gClient, gWriter, gHist, readers>>

\* mask = await reader.readexactly(4); first_read_size = min(BUFFER_SIZE, left_to_read)
Feed_Mask ==
  /\ AtPc("feed_mask")
  /\ IF Len(inbuf) < 4
     THEN /\ BlockOn("inbuf", 0)
          /\ UNCHANGED gWire
     ELSE /\ inbuf' = Drop(inbuf, 4)
          /\ nread' = nread + 4
          /\ Commit(SetT(S0, Self, [Me EXCEPT !.mask = Take(inbuf, 4), !.pc = "feed_rd",
                                              !.phase = 1,
                                              !.val = Min(BUFFER_SIZE, Me.left)]), Self)
  /\ UNCHANGED <<gLib, gEnv, gOut, gClient, gWriter, gHist, readers>>

\* await reader.readexactly(size) of the chunk that is put next
Feed_Rd ==
  /\ AtPc("feed_rd")
  /\ IF Len(inbuf) < Me.val
     THEN /\ BlockOn("inbuf", 0)
          /\ UNCHANGED gWire
     ELSE /\ inbuf' = Drop(inbuf, Me.val)
          /\ nread' = nread + Me.val
          /\ Commit(SetT(S0, Self, [Me EXCEPT !.pend = Take(inbuf, Me.val),
                                              !.pc = "feed_put"]), Self)
  /\ UNCHANGED <<gLib, gEnv, gOut, gClient, gWriter, gHist, readers>>

\* await self.que.put((chunk, size, mask)); left_to_read -= size; the next
\* chunk: phase 1 is the first read, 2 the while loop, 3 the trailing read
Feed_Put ==
  /\ AtPc("feed_put")
  /\ IF Len(readers[Me.rid].que) >= QUE_MAXSIZE
     THEN /\ BlockOn("qput", Me.rid)
          /\ UNCHANGED readers
     ELSE LET left == Me.left - Me.val
              t1 == [Me EXCEPT !.left = left, !.pend = <<>>]
              t2 == IF Me.phase = 3 THEN FeedReturn(t1)
                    ELSE IF left > BUFFER_SIZE
                         THEN [t1 EXCEPT !.pc = "feed_rd", !.phase = 2, !.val = BUFFER_SIZE]
                    ELSE IF left > 0
                         THEN [t1 EXCEPT !.pc = "feed_rd", !.phase = 3, !.val = left]
                    ELSE FeedReturn(t1)
          IN  /\ readers' = [readers EXCEPT ![Me.rid].que =
                               Append(@, [data |-> Me.pend, length |-> Me.val,
                                          mask |-> Me.mask])]
              /\ Commit(SetT(Wake(S0, "qget", Me.rid), Self, t2), Self)
  /\ UNCHANGED <<gLib, gEnv, gWire, gOut, gClient, gWriter, gHist>>


\* ------------------------------- WebSocketReader.process_text / _binary
\* the loop body for every chunk queued: unmask, decode (TEXT), feed_data;
\* a UnicodeDecodeError sets the exception on the stream and ends the loop
RECURSIVE ProcRun(_)
ProcRun(r) ==
  IF r.que = <<>> THEN [r |-> r, raised |-> FALSE]
  ELSE LET item == Head(r.que)
           data == Unmask(item.data, item.length, item.mask)
           r1 == [r EXCEPT !.que = Tail(@)]
       IN  IF r.kind = "TEXT"
           THEN LET d == Decode(r.dec, data)
                IN  IF d = DecBad
                    THEN [r |-> [r1 EXCEPT !.exc = "unicode", !.excset = TRUE],
                          raised |-> TRUE]
                    ELSE ProcRun([r1 EXCEPT !.dec = d, !.buf = @ \o data])
           ELSE ProcRun([r1 EXCEPT !.buf = @ \o data])

\* the processor task runs until que.get() has to wait, the loop condition
\* fails, an exception leaves it, or it was cancelled while waiting
Processor ==
  /\ Self # 0
  /\ Me.kind = "proc"
  /\ Me.pc \in {"p_start", "p_get"}
  /\ IF Me.cancel
     THEN /\ Commit(Finish(S0, Self, IF Me.pc = "p_start" THEN "cancelled" ELSE "ok", 0), 0)
          /\ UNCHANGED readers
     ELSE LET pr == ProcRun(readers[Me.rid])
              S1 == IF readers[Me.rid].que # <<>>
                    THEN Wake(Wake(S0, "rdata", Me.rid), "qput", Me.rid)
                    ELSE S0
          IN  /\ readers' = [readers EXCEPT ![Me.rid] = pr.r]
              /\ IF pr.raised THEN Commit(Finish(S1, Self, "exc", 0), 0)
                 ELSE IF pr.r.reading
                      THEN Commit(SetT(S1, Self, [Me EXCEPT !.pc = "p_get",
                                                            !.wait = WaitOn("qget", Me.rid)]), 0)
                 ELSE Commit(Finish(S1, Self, "ok", 0), 0)
  /\ UNCHANGED <<gLib, gEnv, gWire, gOut, gClient, gWriter, gHist>>

\* ------------------------------------------------- WebSocketReader.adone
\* self.reading = False; the processor's exception is re-raised, or the
\* processor is cancelled (que empty) and awaited
ADone ==
  /\ At("adone", "adone")
  /\ LET r == readers[Me.rid]
         p == tasks[r.proc]
     IN  /\ readers' = [readers EXCEPT ![Me.rid].reading = FALSE]
         /\ IF IsDone(p)
            THEN Commit(SetT(S0, Self, [Me EXCEPT !.pc = "ad_wait"]), Self)
            ELSE Commit(SetT(IF r.que = <<>> THEN Cancel(S0, r.proc) ELSE S0, Self,
                             [Me EXCEPT !.pc = "ad_wait",
                                        !.wait = WaitOn("task", r.proc)]), 0)
  /\ UNCHANGED <<gLib, gEnv, gWire, gOut, gClient, gWriter, gHist>>

\* await self.processor returned or raised
ADone_Wait ==
  /\ At("adone", "ad_wait")
  /\ LET p == tasks[readers[Me.rid].proc]
     IN  IF p.res = "cancelled"
         THEN Commit(Finish(S0, Self, "cancelled", 0), 0)
         ELSE Commit(SetT(S0, Self, [Me EXCEPT !.pc = IF p.res = "exc" THEN "ad_exc"
                                                      ELSE "ad_fin"]), Self)
  /\ UNCHANGED <<gLib, gEnv, gWire, gOut, gClient, gWriter, gHist, readers>>

\* self.decoder.decode(b'', True) for TEXT; self.feed_eof()
ADone_Fin ==
  /\ At("adone", "ad_fin")
  /\ LET r == readers[Me.rid]
     IN  IF r.kind = "TEXT" /\ DecodeFinalRaises(r.dec)
         THEN /\ Commit(SetT(S0, Self, [Me EXCEPT !.pc = "ad_exc"]), Self)
              /\ UNCHANGED readers
         ELSE /\ readers' = [readers EXCEPT ![Me.rid].eof = TRUE,
                                            ![Me.rid].cleaneof = @ \/ (r.exc = "none")]
              /\ Commit(Finish(Wake(S0, "rdata", Me.rid), Self, "ok", 0), 0)
  /\ UNCHANGED <<gLib, gEnv, gWire, gOut, gClient, gWriter, gHist>>

\* except UnicodeDecodeError: set_exception(e); await client.close(INCONSISTENT_DATA, ...)
ADone_Exc ==
  /\ At("adone", "ad_exc")
  /\ readers' = SetException(readers, Me.rid, "unicode")
  /\ Commit(SetT(Wake(S0, "rdata", Me.rid), Self,
                 [Me EXCEPT !.pc = "cc", !.code = INCONSISTENT_DATA,
                            !.reason = R_DecodeError]), Self)
  /\ UNCHANGED <<gLib, gEnv, gWire, gOut, gClient, gWriter, gHist>>

\* ------------------------------------------------------------ on_message
\* the callback starts with the reader of the message
OnMessage ==
  /\ At("onmsg", "om")
  /\ started' = Append(started, Me.fr)
  /\ Commit(SetT(S0, Self, [Me EXCEPT !.pc = "om_read"]), Self)
  /\ UNCHANGED <<gLib, gEnv, gWire, gOut, gClient, gWriter, log, readers>>

\* await reader.read(): the bytes fed so far are taken; the read ends at EOF
\* or with the exception set on the stream
OnMessage_Read ==
  /\ At("onmsg", "om_read")
  /\ LET r == readers[Me.rid]
     IN  IF r.exc # "none"
         THEN /\ readers' = [readers EXCEPT ![Me.rid].recvEnd = "exc"]
              /\ Commit(Finish(S0, Self, "exc", 0), 0)
         ELSE /\ readers' = [readers EXCEPT ![Me.rid].recv = @ \o r.buf,
                                            ![Me.rid].buf = <<>>,
                                            ![Me.rid].recvEnd = IF r.eof THEN "eof" ELSE @]
              /\ IF r.eof THEN Commit(Finish(S0, Self, "ok", 0), 0)
                 ELSE Commit(SetT(S0, Self, [Me EXCEPT !.wait = WaitOn("rdata", Me.rid)]), 0)
  /\ UNCHANGED <<gLib, gEnv, gWire, gOut, gClient, gWriter, gHist>>


\* ------------------------------------------------------------ the writer
\* WebSocketWriter.write_frame: header, length field, data
write_frame(header, data, length) ==
  header \o (IF length > MAX_LEN_16 THEN <<LENGTH_OVER_16>> \o ToBytes(length, 8)
             ELSE IF length > MAX_LEN_7 THEN <<LENGTH_OVER_7>> \o ToBytes(length, 2)
             ELSE ToBytes(length, 1)) \o data

\* self.writer.write(frame): a closed transport with nothing buffered drops it
TransportWrite(bytes) ==
  IF tclosed /\ ~paused THEN out
  ELSE Append(out, [bytes |-> bytes, latched |-> latch, by |-> Self, fr |-> Me.fr])

\* asyncio.Lock: release wakes the first waiter, which leaves the queue when it runs
Release_S(S) == IF lockq # <<>> THEN WakeOne(S, Head(lockq)) ELSE S
LockFree == (lock = 0 /\ lockq = <<>>) \/ (lockq # <<>> /\ Head(lockq) = Self)
LockqWithout(tid) == SelectSeq(lockq, LAMBDA x : x # tid)

\* with (await self.write_lock), at pc: go on at pcIn holding the lock, or wait
Acquire(pcIn) ==
  IF LockFree
  THEN /\ lock' = Self
       /\ lockq' = LockqWithout(Self)
       /\ Commit(SetT(S0, Self, [Me EXCEPT !.pc = pcIn]), Self)
  ELSE /\ lock' = lock
       /\ lockq' = Append(lockq, Self)
       /\ BlockOn("lock", 0)

\* await self.writer.drain() inside the lock, then pcAfter
Drain(pcAfter) ==
  IF tclosed
  THEN /\ lock' = (IF lock = Self THEN 0 ELSE lock)
       /\ Commit(Raise(IF lock = Self THEN Release_S(S0) ELSE S0, Self), RaiseKeeps(S0, Self))
  ELSE /\ lock' = lock
       /\ IF paused
          THEN Commit(SetT(S0, Self, [Me EXCEPT !.pc = pcAfter, !.wait = WaitOn("drain", 0)]), 0)
          ELSE Commit(SetT(S0, Self, [Me EXCEPT !.pc = pcAfter]), Self)

\* ----------------------------------------------------------- Client.close
\* a Client.close that leaves the latch open
LatchStaysOpen == FALSE

\* self.server_has_initiated_close = True
LatchAfterClose == TRUE

\* if not self.server_has_initiated_close: ensure_future(on_closed); set the
\* latch; await self.writer.close(code, reason)
Client_close ==
  /\ AtPc("cc")
  /\ IF ~latch
     THEN /\ latch' = LatchAfterClose
          /\ latchBy' = [tid |-> Self, fr |-> Me.fr, code |-> Me.code]
          /\ Commit(SetT(Spawn(S0, NewTask("onclosed", "ocl", 0, Me.fr)), Self,
                         [Me EXCEPT !.pc = "wc_lock"]), Self)
     ELSE /\ UNCHANGED <<latch, latchBy>>
          /\ Commit(RetS(S0, Self, Me), RetC(Self, Me))
  /\ UNCHANGED <<gLib, gEnv, gWire, gOut, gWriter, gHist, readers, state, continuation, cur_reader,
                 last_message, read_task>>

\* the default on_closed callback
OnClosed ==
  /\ At("onclosed", "ocl")
  /\ Commit(Finish(S0, Self, "ok", 0), 0)
  /\ UNCHANGED <<gLib, gEnv, gWire, gOut, gClient, gWriter, gHist, readers>>

\* WebSocketWriter.close: with (await self.write_lock)
WClose_Lock ==
  /\ AtPc("wc_lock")
  /\ Acquire("wc_write")
  /\ UNCHANGED <<gLib, gEnv, gWire, gOut, gClient, wclosed, gHist, readers>>

\* the close frame: empty for NO_STATUS, else code + reason, at most MAX_LEN_7 bytes
CloseFrameBytes(code, reason) ==
  IF code = NO_STATUS THEN write_frame(<<136>>, <<>>, 0)
  ELSE write_frame(<<136>>, CodeBytes(code) \o reason, 2 + Len(reason))

WClose_Write ==
  /\ AtPc("wc_write")
  /\ IF Me.code # NO_STATUS /\ 2 + Len(Me.reason) > MAX_LEN_7
     THEN /\ lock' = 0
          /\ out' = out
          /\ Commit(Raise(Release_S(S0), Self), RaiseKeeps(S0, Self))
     ELSE /\ lock' = lock
          /\ out' = TransportWrite(CloseFrameBytes(Me.code, Me.reason))
          /\ Commit(SetT(S0, Self, [Me EXCEPT !.pc = "wc_drain"]), Self)
  /\ UNCHANGED <<gLib, gEnv, gWire, tclosed, gClient, wclosed, lockq, gHist, readers>>

WClose_Drain ==
  /\ AtPc("wc_drain")
  /\ Drain("wc_closed")
  /\ UNCHANGED <<gLib, gEnv, gWire, gOut, gClient, wclosed, lockq, gHist, readers>>

\* self.closed = True; the lock is released; close returns
WClose_Closed ==
  /\ AtPc("wc_closed")
  /\ wclosed' = TRUE
  /\ lock' = 0
  /\ LET t == [Me EXCEPT !.reason = <<>>]
     IN  Commit(RetS(Release_S(S0), Self, t), RetC(Self, t))
  /\ UNCHANGED <<gLib, gEnv, gWire, gOut, gClient, lockq, gHist, readers>>


\* ------------------------------------------------------- StreamReader.read
\* data = await buffer.read(n) by the running task, n in val, then pcNext
BufferRead(pcNext) ==
  LET r == readers[Me.rid]
  IN  IF r.exc # "none"
      THEN /\ Commit(Raise(S0, Self), RaiseKeeps(S0, Self))
           /\ UNCHANGED readers
      ELSE IF Me.val = 0
      THEN /\ Commit(SetT(S0, Self, [Me EXCEPT !.pc = pcNext, !.data = <<>>]), Self)
           /\ UNCHANGED readers
      ELSE IF r.buf = <<>> /\ ~r.eof
      THEN /\ BlockOn("rdata", Me.rid)
           /\ UNCHANGED readers
      ELSE /\ readers' = [readers EXCEPT ![Me.rid].buf = Drop(@, Me.val)]
           /\ Commit(SetT(S0, Self, [Me EXCEPT !.pc = pcNext, !.data = Take(r.buf, Me.val)]),
                     Self)

\* await of the task in aw: its result in val, then pcNext; its exception is raised
AwaitTask(pcNext) ==
  IF IsDone(tasks[Me.aw])
  THEN IF tasks[Me.aw].res = "exc"
       THEN Commit(Raise(S0, Self), RaiseKeeps(S0, Self))
       ELSE Commit(SetT(S0, Self, [Me EXCEPT !.pc = pcNext, !.val = tasks[Me.aw].val]), Self)
  ELSE BlockOn("task", Me.aw)

\* -------------------------------------------------- Client.close_with_read
\* close = ensure_future(self.close(code, reason)); buffer = WebSocketReader(BINARY);
\* length = await buffer.feed(reader)
CloseWithRead ==
  /\ At("main", "cwr")
  /\ LET cid == NewId(S0)
         S1 == Spawn(S0, CloseTask("close", "cc", Me.fr, Me.code, Me.reason))
         rid == Len(readers) + 1
     IN  /\ readers' = NewReader_R(S1, readers, "BINARY", FALSE)
         /\ log' = [log EXCEPT ![Me.fr].ctask = cid]
         /\ Commit(SetT(NewReader_S(S1, readers, Me.fr), Self,
                        Call([Me EXCEPT !.aw = cid, !.rid = rid, !.code = 0,
                                        !.reason = <<>>], "feed_b1", "cwr_fed")), Self)
  /\ UNCHANGED <<gLib, gEnv, gWire, gOut, gClient, gWriter, started>>

\* buffer.done()
CloseWithRead_Fed ==
  /\ At("main", "cwr_fed")
  /\ readers' = Done_R(readers, Me.rid)
  /\ Commit(SetT(Done_S(S0, Me.rid, Me.fr), Self, [Me EXCEPT !.pc = "cwr_read"]), Self)
  /\ UNCHANGED <<gLib, gEnv, gWire, gOut, gClient, gWriter, gHist>>

\* data = await buffer.read(length)
CloseWithRead_Read ==
  /\ At("main", "cwr_read")
  /\ BufferRead("cwr_await")
  /\ UNCHANGED <<gLib, gEnv, gWire, gOut, gClient, gWriter, gHist>>

\* await close; return data
CloseWithRead_Await ==
  /\ At("main", "cwr_await")
  /\ AwaitTask("cwr_ret")
  /\ UNCHANGED <<gLib, gEnv, gWire, gOut, gClient, gWriter, gHist, readers>>

CloseWithRead_Return ==
  /\ At("main", "cwr_ret")
  /\ Commit(SetT(S0, Self, Return([Me EXCEPT !.aw = 0, !.rid = 0, !.val = 0,
                                             !.data = <<>>])), Self)
  /\ UNCHANGED <<gLib, gEnv, gWire, gOut, gClient, gWriter, gHist, readers>>


\* ------------------------------------------------------ Client.handle_data
\* a handle_data that never expects a continuation
ExpectsContinuationNever(c) == FALSE

\* if self.continuation != DataType.NONE
ExpectsContinuation(c) == c # "NONE"

\* a Text or Binary frame: a protocol error while a message is in progress,
\* else a new reader, its on_message task, and _read_message
handle_data ==
  /\ At("main", "hd")
  /\ LET kind == IF BitAnd(Me.hdr, OP_CODE_BITS) = OP_TEXT THEN "TEXT" ELSE "BINARY"
         rid == Len(readers) + 1
     IN  IF ExpectsContinuation(continuation)
         THEN /\ readers' = Done_R(SetException(readers, cur_reader, "unexpected"), cur_reader)
              /\ log' = [log EXCEPT ![Me.fr].branch = "data_viol", ![Me.fr].rid = cur_reader]
              /\ cur_reader' = cur_reader
              /\ Commit(SetT(Done_S(Wake(S0, "rdata", cur_reader), cur_reader, Me.fr), Self,
                             Call([Me EXCEPT !.code = PROTOCOL_ERROR,
                                             !.reason = R_ExpectedContinuation],
                                  "cwr", "h_ret")), Self)
         ELSE /\ readers' = NewReader_R(S0, readers, kind, TRUE)
              /\ log' = [log EXCEPT ![Me.fr].branch = "data_ok", ![Me.fr].rid = rid]
              /\ cur_reader' = rid
              /\ Commit(SetT(Spawn(NewReader_S(S0, readers, Me.fr),
                                   NewTask("onmsg", "om", rid, Me.fr)), Self,
                             Call([Me EXCEPT !.rid = rid], "feed_b1", "rm_fed")), Self)
  /\ UNCHANGED <<gLib, gEnv, gWire, gOut, gWriter, started, state, continuation, latch,
                 last_message, read_task, latchBy>>

\* Client._read_message after feed: FIN ends the message, else it continues
read_message ==
  /\ At("main", "rm_fed")
  /\ IF BitAnd(Me.hdr, FIN_BIT) # 0
     THEN /\ continuation' = "NONE"
          /\ readers' = Done_R(readers, cur_reader)
          /\ Commit(SetT(Done_S(S0, cur_reader, Me.fr), Self, [Me EXCEPT !.pc = "h_ret"]), Self)
     ELSE /\ continuation' = readers[cur_reader].kind
          /\ readers' = readers
          /\ Commit(SetT(S0, Self, [Me EXCEPT !.pc = "h_ret"]), Self)
  /\ UNCHANGED <<gLib, gEnv, gWire, gOut, gWriter, gHist, state, latch, cur_reader, last_message,
                 read_task, latchBy>>

\* Client.handle_continuation
handle_continuation ==
  /\ At("main", "hcont")
  /\ IF continuation = "NONE"
     THEN /\ log' = [log EXCEPT ![Me.fr].branch = "cont_viol"]
          /\ Commit(SetT(S0, Self, Call([Me EXCEPT !.code = PROTOCOL_ERROR,
                                                   !.reason = R_ExpectedNone],
                                        "cwr", "h_ret")), Self)
     ELSE /\ log' = [log EXCEPT ![Me.fr].branch = "cont_ok", ![Me.fr].rid = cur_reader]
          /\ Commit(SetT(S0, Self, Call([Me EXCEPT !.rid = cur_reader],
                                        "feed_b1", "rm_fed")), Self)
  /\ UNCHANGED <<gLib, gEnv, gWire, gOut, gClient, gWriter, started, readers>>

\* Client.handle_undefined
handle_undefined ==
  /\ At("main", "hundef")
  /\ log' = [log EXCEPT ![Me.fr].branch = "undef"]
  /\ Commit(SetT(S0, Self, Call([Me EXCEPT !.code = PROTOCOL_ERROR,
                                           !.reason = R_InvalidOpcode],
                                "cwr", "h_ret")), Self)
  /\ UNCHANGED <<gLib, gEnv, gWire, gOut, gClient, gWriter, started, readers>>

\* ----------------------------------------- WebSocketReader.feed_once
\* length = await self.feed(reader) has returned: self.done(); return length
feed_once ==
  /\ At("feedonce", "fo_fed")
  /\ readers' = Done_R(readers, Me.rid)
  /\ Commit(Finish(Done_S(S0, Me.rid, Me.fr), Self, "ok", Me.val), 0)
  /\ UNCHANGED <<gLib, gEnv, gWire, gOut, gClient, gWriter, gHist>>

\* --------------------------------------------- Client.handle_ping_or_pong
\* buffer = WebSocketReader(BINARY); feed = ensure_future(buffer.feed_once(reader));
\* a fragmented control frame, or one after the server initiated close, is
\* answered with close; else the handler waits for the feed
handle_ping_or_pong ==
  /\ At("main", "hpp")
  /\ LET fin == BitAnd(Me.hdr, FIN_BIT) # 0
         rid == Len(readers) + 1
         S1 == NewReader_S(S0, readers, Me.fr)
         fid == NewId(S1)
         S2 == Spawn(S1, [NewTask("feedonce", "feed_b1", rid, Me.fr) EXCEPT !.stk = <<"fo_fed">>])
         rs1 == NewReader_R(S0, readers, "BINARY", FALSE)
         me == [Me EXCEPT !.rid = rid, !.aw = fid]
     IN  IF ~fin \/ latch
         THEN /\ readers' = EnsureCleanClose_R(rs1)
              /\ log' = [log EXCEPT ![Me.fr].branch = IF ~fin THEN "pp_frag" ELSE "pp_afterclose"]
              /\ Commit(SetT(EnsureCleanClose_S(S2, Me.fr), Self,
                             Call([me EXCEPT !.code = IF ~fin THEN PROTOCOL_ERROR
                                                      ELSE POLICY_VIOLATION,
                                             !.reason = IF ~fin THEN R_Fragmented
                                                        ELSE R_AfterClose],
                                  "cc", "hp_awfeed")), Self)
         ELSE /\ readers' = rs1
              /\ log' = [log EXCEPT ![Me.fr].branch = "pp"]
              /\ Commit(SetT(S2, Self, [me EXCEPT !.pc = "hp_len"]), Self)
  /\ UNCHANGED <<gLib, gEnv, gWire, gOut, gClient, gWriter, started>>

\* await feed; return          (after the close of the error branch)
PingPong_AwaitFeed ==
  /\ At("main", "hp_awfeed")
  /\ AwaitTask("h_ret")
  /\ UNCHANGED <<gLib, gEnv, gWire, gOut, gClient, gWriter, gHist, readers>>

\* length = await feed
PingPong_Length ==
  /\ At("main", "hp_len")
  /\ AwaitTask("hp_chk")
  /\ UNCHANGED <<gLib, gEnv, gWire, gOut, gClient, gWriter, gHist, readers>>

\* a length check that is off by one
ControlTooLongOver126(length) == length > 126

\* if length > 125
ControlTooLong(length) == length > 125

\* if length > 125: ensure_clean_close(); await self.close(PROTOCOL_ERROR, ...); return
PingPong_Check ==
  /\ At("main", "hp_chk")
  /\ IF ControlTooLong(Me.val)
     THEN /\ readers' = EnsureCleanClose_R(readers)
          /\ log' = [log EXCEPT ![Me.fr].branch = "pp_long"]
          /\ Commit(SetT(EnsureCleanClose_S(S0, Me.fr), Self,
                         Call([Me EXCEPT !.code = PROTOCOL_ERROR, !.reason = R_TooLong],
                              "cc", "h_ret")), Self)
     ELSE /\ UNCHANGED <<readers, log>>
          /\ Commit(SetT(S0, Self, [Me EXCEPT !.pc = "hp_read"]), Self)
  /\ UNCHANGED <<gLib, gEnv, gWire, gOut, gClient, gWriter, started>>

\* data = await buffer.read(length)
PingPong_Read ==
  /\ At("main", "hp_read")
  /\ BufferRead("hp_call")
  /\ UNCHANGED <<gLib, gEnv, gWire, gOut, gClient, gWriter, gHist>>

\* create_task(self.on_ping(data, length)) / on_pong; buffer.done()
PingPong_Callback ==
  /\ At("main", "hp_call")
  /\ LET ping == BitAnd(Me.hdr, OP_CODE_BITS) = OP_PING
         cb == [NewTask(IF ping THEN "onping" ELSE "onpong", "cb", 0, Me.fr)
                  EXCEPT !.data = Me.data, !.val = Me.val]
     IN  /\ readers' = Done_R(readers, Me.rid)
         /\ log' = [log EXCEPT ![Me.fr].branch = "pp_ok"]
         /\ Commit(SetT(Done_S(Spawn(S0, cb), Me.rid, Me.fr), Self,
                        [Me EXCEPT !.pc = "h_ret"]), Self)
  /\ UNCHANGED <<gLib, gEnv, gWire, gOut, gClient, gWriter, started>>

\* a pong that leaves the payload out
PongFrameEmpty(payload, length) == write_frame(<<138>>, <<>>, 0)

\* WebSocketWriter.pong: self.write_frame(b'\x8A', payload, length)
PongFrameBytes(payload, length) == write_frame(<<138>>, payload, length)

\* the default on_ping: await self.writer.pong(length, payload)
\* WebSocketWriter.pong: write_frame(b'\x8A', payload, length); drain
on_ping ==
  /\ At("onping", "cb")
  /\ out' = TransportWrite(PongFrameBytes(Me.data, Me.val))
  /\ Commit(SetT(S0, Self, [Me EXCEPT !.pc = "pong_drain", !.data = <<>>]), Self)
  /\ UNCHANGED <<gLib, gEnv, gWire, tclosed, gClient, gWriter, gHist, readers>>

pong_Drain ==
  /\ At("onping", "pong_drain")
  /\ Drain("pong_end")
  /\ UNCHANGED <<gLib, gEnv, gWire, gOut, gClient, wclosed, lockq, gHist, readers>>

pong_Return ==
  /\ At("onping", "pong_end")
  /\ Commit(Finish(S0, Self, "ok", 0), 0)
  /\ UNCHANGED <<gLib, gEnv, gWire, gOut, gClient, gWriter, gHist, readers>>

\* the default on_pong: pass
on_pong ==
  /\ At("onpong", "cb")
  /\ Commit(Finish(S0, Self, "ok", 0), 0)
  /\ UNCHANGED <<gLib, gEnv, gWire, gOut, gClient, gWriter, gHist, readers>>

\* ----------------------------------------------------- Client.handle_close
\* buffer = WebSocketReader(BINARY); length = await buffer.feed_once(reader)
handle_close ==
  /\ At("main", "hc")
  /\ readers' = NewReader_R(S0, readers, "BINARY", FALSE)
  /\ log' = [log EXCEPT ![Me.fr].branch = "close"]
  /\ Commit(SetT(NewReader_S(S0, readers, Me.fr), Self,
                 Call([Me EXCEPT !.rid = Len(readers) + 1], "feed_b1", "hc_fed")), Self)
  /\ UNCHANGED <<gLib, gEnv, gWire, gOut, gClient, gWriter, started>>

\* feed_once: self.done(); return length
Close_Fed ==
  /\ At("main", "hc_fed")
  /\ readers' = Done_R(readers, Me.rid)
  /\ Commit(SetT(Done_S(S0, Me.rid, Me.fr), Self, [Me EXCEPT !.pc = "hc_read"]), Self)
  /\ UNCHANGED <<gLib, gEnv, gWire, gOut, gClient, gWriter, gHist>>

\* reason = await buffer.read(length)
Close_Read ==
  /\ At("main", "hc_read")
  /\ BufferRead("hc_chk")
  /\ UNCHANGED <<gLib, gEnv, gWire, gOut, gClient, gWriter, gHist>>

\* a reply that echoes NO_STATUS as it is
CloseReplyNoStatus(data, length) ==
  IF length > MAX_LEN_7 THEN <<PROTOCOL_ERROR, R_TooLong>>
  ELSE Reason_from_bytes(data, length)

\* the code and reason of the reply: too long, or from_bytes with NO_STATUS
\* replaced by NORMAL
CloseReply(data, length) ==
  IF length > MAX_LEN_7 THEN <<PROTOCOL_ERROR, R_TooLong>>
  ELSE LET cr == Reason_from_bytes(data, length)
       IN  IF cr[1] = NO_STATUS THEN <<NORMAL, cr[2]>> ELSE cr

\* if not self.server_has_initiated_close: ...; ensure_clean_close(); await self.close(code, reason)
Close_Check ==
  /\ At("main", "hc_chk")
  /\ IF ~latch
     THEN LET cr == CloseReply(Me.data, Me.val)
          IN  /\ readers' = EnsureCleanClose_R(readers)
              /\ log' = [log EXCEPT ![Me.fr].initiated = TRUE, ![Me.fr].code = cr[1]]
              /\ Commit(SetT(EnsureCleanClose_S(S0, Me.fr), Self,
                             Call([Me EXCEPT !.code = cr[1], !.reason = cr[2]],
                                  "cc", "hc_end")), Self)
     ELSE /\ UNCHANGED <<readers, log>>
          /\ Commit(SetT(S0, Self, [Me EXCEPT !.pc = "hc_end"]), Self)
  /\ UNCHANGED <<gLib, gEnv, gWire, gOut, gClient, gWriter, started>>

\* a handle_close that leaves the state OPEN
StateAfterCloseOpen == "OPEN"

\* handle_close: self.state = State.CLOSING
StateAfterClose == "CLOSING"

\* self.state = State.CLOSING; self.read_task.cancel()
Close_End ==
  /\ At("main", "hc_end")
  /\ state' = StateAfterClose
  /\ Commit(SetT(Cancel(S0, read_task), Self, [Me EXCEPT !.pc = "h_ret"]), Self)
  /\ UNCHANGED <<gLib, gEnv, gWire, gOut, gWriter, gHist, readers, continuation, latch, cur_reader,
                 last_message, read_task, latchBy>>

\* --------------------------------------------------------- the application
AppOps(sc) ==
  CASE sc = "app" -> {"send", "ping", "close"}
    [] sc = "slow" -> {"send"}
    [] sc = "raw" -> {"wclose"}
    [] sc = "frag" -> {"fragment"}
    [] OTHER -> {}

AppPc(op) ==
  CASE op = "send" -> "as_lock"
    [] op = "ping" -> "ap_write"
    [] op = "close" -> "cc"
    [] op = "fragment" -> "fs_send"
    [] OTHER -> "wc_lock"

\* a task of the application calls client.writer.send(b'hi'),
\* client.writer.ping(), client.close(Reasons.NORMAL.value, ''),
\* client.writer.close(Reasons.NORMAL.value, '') or sends b'hi' inside
\* "async with client.writer.fragment() as stream"
AppCall ==
  /\ Polling
  /\ appops < MaxAppOps
  /\ appops' = appops + 1
  /\ \E op \in AppOps(scen) :
       Polled(Spawn(SE, [NewTask("app", AppPc(op), 0, Len(log)) EXCEPT !.code = NORMAL]))
  /\ UNCHANGED <<gLib, scen, peer, pauses, paused, gWire, gOut, gClient, gWriter, gHist, readers>>

\* WebSocketWriter.send: with (await self.write_lock)
send_Lock ==
  /\ At("app", "as_lock")
  /\ Acquire("as_send")
  /\ UNCHANGED <<gLib, gEnv, gWire, gOut, gClient, wclosed, gHist, readers>>

\* WebSocketWriter.ensure_open(force=False)
ensure_open == ~wclosed

\* if not self.ensure_open(force): return; write_frame(BINARY | FIN, data, len(data))
send_Write ==
  /\ At("app", "as_send")
  /\ IF ensure_open
     THEN /\ out' = TransportWrite(write_frame(<<OP_BINARY + HEADER_FIN_SET>>, <<104, 105>>, 2))
          /\ lock' = lock
          /\ Commit(SetT(S0, Self, [Me EXCEPT !.pc = "as_drain"]), Self)
     ELSE /\ out' = out
          /\ lock' = 0
          /\ Commit(Finish(Release_S(S0), Self, "ok", 0), 0)
  /\ UNCHANGED <<gLib, gEnv, gWire, tclosed, gClient, wclosed, lockq, gHist, readers>>

send_Drain ==
  /\ At("app", "as_drain")
  /\ Drain("as_end")
  /\ UNCHANGED <<gLib, gEnv, gWire, gOut, gClient, wclosed, lockq, gHist, readers>>

send_Return ==
  /\ At("app", "as_end")
  /\ lock' = 0
  /\ Commit(Finish(Release_S(S0), Self, "ok", 0), 0)
  /\ UNCHANGED <<gLib, gEnv, gWire, gOut, gClient, wclosed, lockq, gHist, readers>>

\* WebSocketWriter.ping(b''): write_frame(b'\x89', payload, length); drain
ping_Write ==
  /\ At("app", "ap_write")
  /\ out' = TransportWrite(write_frame(<<137>>, <<>>, 0))
  /\ Commit(SetT(S0, Self, [Me EXCEPT !.pc = "ap_drain"]), Self)
  /\ UNCHANGED <<gLib, gEnv, gWire, tclosed, gClient, gWriter, gHist, readers>>

ping_Drain ==
  /\ At("app", "ap_drain")
  /\ Drain("ap_end")
  /\ UNCHANGED <<gLib, gEnv, gWire, gOut, gClient, wclosed, lockq, gHist, readers>>

ping_Return ==
  /\ At("app", "ap_end")
  /\ Commit(Finish(S0, Self, "ok", 0), 0)
  /\ UNCHANGED <<gLib, gEnv, gWire, gOut, gClient, gWriter, gHist, readers>>

\* ---------------------------------------------------------- FragmentContext
\* async with writer.fragment() as stream: await stream.send(b'hi')
\* send: ensure_open, else Break, which __aexit__ swallows; the piece is kept
\* as previous_fragment. __aexit__: finish_send: _push(previous_fragment,
\* fin=True): push_task = ensure_future(self.write(fragment, fin)); await it
fragment_send ==
  /\ At("app", "fs_send")
  /\ IF ensure_open
     THEN Commit(SetT(Spawn(S0, [NewTask("fragw", "fw", 0, Me.fr) EXCEPT
                                   !.data = <<104, 105>>, !.val = 1]),
                      Self, [Me EXCEPT !.pc = "fs_await", !.aw = NewId(S0)]), Self)
     ELSE Commit(Finish(S0, Self, "ok", 0), 0)
  /\ UNCHANGED <<gLib, gEnv, gWire, gOut, gClient, gWriter, gHist, readers>>

\* FragmentContext.write: the first write carries the opcode of the data;
\* self.writer.writer.write((op_code | fin << 7).to_bytes(1, 'big')); then
\* self.writer.raw_send, an attribute WebSocketWriter does not have:
\* AttributeError
fragment_write ==
  /\ At("fragw", "fw")
  /\ out' = TransportWrite(<<OP_BINARY + Me.val * HEADER_FIN_SET>>)
  /\ Commit(Raise(S0, Self), RaiseKeeps(S0, Self))
  /\ UNCHANGED <<gLib, gEnv, gWire, tclosed, gClient, gWriter, gHist, readers>>

\* finish_send: await self.push_task
fragment_await ==
  /\ At("app", "fs_await")
  /\ AwaitTask("ap_end")
  /\ UNCHANGED <<gLib, gEnv, gWire, gOut, gClient, gWriter, gHist, readers>>

\* ------------------------------------------------------------ the transport
\* the write buffer passes its high-water mark: drain() will wait
TransportPause ==
  /\ Polling
  /\ scen = "slow"
  /\ ~paused
  /\ ~tclosed
  /\ pauses < MaxPauses
  /\ paused' = TRUE
  /\ pauses' = pauses + 1
  /\ UNCHANGED <<gLib, scen, peer, appops, gWire, gOut, gClient, gWriter, gHist, readers, tasks,
                 ready, cur, todo>>

\* the buffer is flushed: resume_writing wakes the tasks waiting in drain()
TransportResume ==
  /\ Polling
  /\ paused
  /\ paused' = FALSE
  /\ Polled(Wake(SE, "drain", 0))
  /\ UNCHANGED <<gLib, scen, peer, appops, pauses, gWire, gOut, gClient, gWriter, gHist, readers>>

Next ==
  \/ RunOnce
  \/ PeerSend
  \/ PeerRest
  \/ M_Loop
  \/ ReadTask
  \/ M_Got
  \/ M_Return
  \/ M_Finally
  \/ Feed_B1
  \/ Feed_Ext
  \/ Feed_NoMask
  \/ Feed_Mask
  \/ Feed_Rd
  \/ Feed_Put
  \/ Processor
  \/ ADone
  \/ ADone_Wait
  \/ ADone_Fin
  \/ ADone_Exc
  \/ OnMessage
  \/ OnMessage_Read
  \/ Client_close
  \/ OnClosed
  \/ WClose_Lock
  \/ WClose_Write
  \/ WClose_Drain
  \/ WClose_Closed
  \/ CloseWithRead
  \/ CloseWithRead_Fed
  \/ CloseWithRead_Read
  \/ CloseWithRead_Await
  \/ CloseWithRead_Return
  \/ handle_data
  \/ read_message
  \/ handle_continuation
  \/ handle_undefined
  \/ feed_once
  \/ handle_ping_or_pong
  \/ PingPong_AwaitFeed
  \/ PingPong_Length
  \/ PingPong_Check
  \/ PingPong_Read
  \/ PingPong_Callback
  \/ on_ping
  \/ pong_Drain
  \/ pong_Return
  \/ on_pong
  \/ handle_close
  \/ Close_Fed
  \/ Close_Read
  \/ Close_Check
  \/ Close_End
  \/ AppCall
  \/ send_Lock
  \/ send_Write
  \/ send_Drain
  \/ send_Return
  \/ ping_Write
  \/ ping_Drain
  \/ ping_Return
  \/ fragment_send
  \/ fragment_write
  \/ fragment_await
  \/ TransportPause
  \/ TransportResume

Spec == Init /\ [][Next]_vars

\* ------------------------------------------------------ Reason.from_bytes
\* the payloads of Close frames handed to from_bytes: nothing, a single
\* byte, and every 16-bit code followed by a reason of at most n bytes, some
\* of them no UTF-8
ReasonBytes == {97, 255}
Reasons_UpTo(n) == UNION {[1..k -> ReasonBytes] : k \in 0..n}
CloseCodes == 0..(2 ^ 16 - 1)
ClosePayloads(n) ==
  {<<>>} \cup {<<b>> : b \in ReasonBytes}
         \cup {CodeBytes(c) \o r : c \in CloseCodes, r \in Reasons_UpTo(n)}

NoResult == <<>>

InitFromBytes ==
  /\ InitConn("msg")
  /\ fb \in {[data |-> d, res |-> NoResult] : d \in ClosePayloads(MaxReasonLen)}
  /\ buffer = <<>>
  /\ bufio = <<>>
  /\ NoObj

\* handle_close: code, reason = Reason.from_bytes(reason, length)
from_bytes ==
  /\ fb.res = NoResult
  /\ fb' = [fb EXCEPT !.res = Reason_from_bytes(fb.data, Len(fb.data))]
  /\ UNCHANGED <<gConn, buffer, bufio, gObj>>

NextFromBytes == from_bytes

SpecFromBytes == InitFromBytes /\ [][NextFromBytes]_vars


\* ------------------------------------------------------------ observations
\* the frames on the outbound wire
Opcode(e) == BitAnd(e.bytes[1], OP_CODE_BITS)
IsCloseOut(e) == Opcode(e) = OP_CLOSE
CloseCodeOut(e) == IF Len(e.bytes) >= 4 THEN CodeOf(SubSeq(e.bytes, 3, 4)) ELSE 0
CloseFramesOut == {k \in DOMAIN out : IsCloseOut(out[k])}

\* the bytes of the first k frames of the peer
\* the number of bytes of a frame on the wire (RFC 6455, 5.2)
FrameLen(f) ==
  LET n == Len(f.payload)
  IN  2 + (IF n > MAX_LEN_16 THEN 8 ELSE IF n > MAX_LEN_7 THEN 2 ELSE 0)
        + (IF f.masked THEN 4 ELSE 0) + n

RECURSIVE WireLen(_)
\* the number of bytes of the peer's first k frames
WireLen(k) == IF k = 0 THEN 0 ELSE WireLen(k - 1) + FrameLen(peer.sent[k])

\* no task can run and nothing is on its way
Quiescent == Polling /\ ready = <<>> /\ peer.pending = <<>>

\* a close payload the server echoes: empty, or a code that from_bytes
\* accepts followed by a UTF-8 reason
ValidClosePayload(p) ==
  \/ p = <<>>
  \/ /\ Len(p) >= 2
     /\ Len(p) <= MAX_LEN_7
     /\ CodeOf(Take(p, 2)) >= NORMAL
     /\ CodeOf(Take(p, 2)) \notin (INVALID_CODES \cup UNDEFINED_CODES)
     /\ ValidUtf8(Drop(p, 2))
EchoCode(p) == IF p = <<>> THEN NORMAL ELSE CodeOf(Take(p, 2))

\* ------------------------------------------------------------------ Buffer
\* Buffer.__init__(limit, loop). write_signal is the value of the Event of
\* that name; read_signal is set and cleared in one step and has no value to
\* keep. The waiters of the two Events are the consumer and the producer.
NewBuffer(limit) ==
  [limit |-> limit, backing |-> [i \in 1..limit |-> 0], read_available |-> 0,
   write_available |-> limit, read_head |-> 0, write_head |-> 0,
   write_signal |-> FALSE, eof |-> FALSE, exc |-> "none"]

\* backing[start:start + len(data)] = data
Put(backing, start, data) ==
  [i \in 1..Len(backing) |->
     IF i - 1 >= start /\ i - 1 < start + Len(data) THEN data[i - start] ELSE backing[i]]

\* write: the copy into backing and the new write_head
WriteBytes(b, data) ==
  LET length == Len(data)
      tail == b.limit - b.write_head
  IN  IF tail < length
      THEN [b EXCEPT !.backing = Put(Put(b.backing, b.write_head, Take(data, tail)),
                                     0, Drop(data, tail)),
                     !.write_head = length - tail]
      ELSE [b EXCEPT !.backing = Put(b.backing, b.write_head, data),
                     !.write_head = b.write_head + length]

\* a write that does not take the bytes off write_available
Buffer_write_NoDebit(b, data) ==
  [WriteBytes(b, data) EXCEPT !.read_available = @ + Len(data), !.write_signal = FALSE]

\* write, once write_available >= length: the copy, the two counters,
\* write_signal.set(); write_signal.clear()
Buffer_write(b, data) ==
  [WriteBytes(b, data) EXCEPT !.read_available = @ + Len(data),
                              !.write_available = @ - Len(data),
                              !.write_signal = FALSE]

\* a read that restarts at 0 after the end of backing
ReadHeadAfterFromZero(b, n) ==
  IF b.read_head + n > b.limit THEN 0 ELSE b.read_head + n

\* read_into: the new read_head
ReadHeadAfter(b, n) ==
  IF b.read_head + n > b.limit THEN n - (b.limit - b.read_head) ELSE b.read_head + n

\* read_into: the bytes copied into buffer[0:n]
ReadBytes(b, n) ==
  LET tail == b.read_head + n
      remaining == b.limit - b.read_head
  IN  IF tail > b.limit
      THEN SubSeq(b.backing, b.read_head + 1, b.limit) \o SubSeq(b.backing, 1, n - remaining)
      ELSE SubSeq(b.backing, b.read_head + 1, tail)

\* read_into / read_into_exactly, once n bytes are taken: the head and the
\* two counters
Buffer_read(b, n) ==
  [b EXCEPT !.read_head = ReadHeadAfter(b, n),
            !.read_available = @ - n,
            !.write_available = @ + n]

\* an exception that is raised only when nothing is left to read
RaisesWhenDrained(b) == b.exc # "none" /\ b.read_available = 0

\* read_into: if self.exc: raise self.exc
Raises(b) == b.exc # "none"

\* a read that goes on waiting at EOF
ReadWaits_IgnoresEof(b, n) == b.read_available < n /\ b.exc = "none"

\* read_into: while self.read_available < n and not self.eof and not self.exc
ReadWaits(b, n) == b.read_available < n /\ ~b.eof /\ b.exc = "none"

\* the bytes of the producer's stream from position k + 1 on: byte i of the
\* stream has the value i
StreamBytes(k, length) == [i \in 1..length |-> k + i]

Idle == [pc |-> "idle", woken |-> FALSE, kind |-> "none", n |-> 0, data |-> <<>>]
NoRead == [kind |-> "none", res |-> "none", exc |-> "none", waited |-> FALSE,
           pre |-> <<>>, post |-> <<>>]
Heads(b) == <<b.read_head, b.read_available, b.write_available>>

\* a Buffer of some limit, with one producer and one consumer
InitBuffer ==
  /\ InitConn("msg")
  /\ fb = <<>>
  /\ \E limit \in 1..MaxLimit : buffer = NewBuffer(limit)
  /\ bufio = [prod |-> Idle, cons |-> Idle, offered |-> 0, written |-> 0, got |-> <<>>,
              last |-> NoRead, late |-> FALSE]
  /\ NoObj

\* write(data) from its loop on: wait on read_signal, or write and wake the
\* reader waiting on write_signal
WriteStep(io, data) ==
  IF buffer.write_available < Len(data)
  THEN /\ bufio' = [io EXCEPT !.prod = [Idle EXCEPT !.pc = "blocked", !.data = data]]
       /\ UNCHANGED buffer
  ELSE /\ buffer' = Buffer_write(buffer, data)
       /\ bufio' = [io EXCEPT !.prod = Idle,
                              !.written = @ + Len(data),
                              !.cons.woken = (io.cons.pc = "blocked")]

\* the producer calls write(data) with the next bytes of its stream; late
\* records whether an exception had been set by then
BufWrite ==
  /\ buffer # <<>>
  /\ bufio.prod.pc = "idle"
  /\ \E length \in 0..Min(buffer.limit, MaxStream - bufio.offered) :
       WriteStep([bufio EXCEPT !.offered = @ + length, !.late = (buffer.exc # "none")],
                 StreamBytes(bufio.offered, length))
  /\ UNCHANGED <<gConn, fb, gObj>>

\* read_signal.wait() has returned: write goes round its loop
BufWriteResume ==
  /\ buffer # <<>>
  /\ bufio.prod.pc = "blocked"
  /\ bufio.prod.woken
  /\ WriteStep(bufio, bufio.prod.data)
  /\ UNCHANGED <<gConn, fb, gObj>>

\* history of the read that has ended: how it ended, the exception that was
\* set by then, whether it had waited, and the heads before and after
ReadDone(io, kind, res, b) ==
  [io EXCEPT !.cons = Idle,
             !.last = [kind |-> kind, res |-> res, exc |-> buffer.exc,
                       waited |-> (io.cons.pc = "blocked"),
                       pre |-> Heads(buffer), post |-> Heads(b)]]

\* read_into(buffer, n) and read_into_exactly(buffer, n) from their loop on:
\* wait on write_signal, raise, return 0, or take the bytes and wake the
\* writer waiting on read_signal
ReadStep(io, kind, n) ==
  IF ReadWaits(buffer, n)
  THEN /\ bufio' = [io EXCEPT !.cons = [Idle EXCEPT !.pc = "blocked", !.kind = kind, !.n = n,
                                                    !.woken = buffer.write_signal]]
       /\ UNCHANGED buffer
  ELSE IF Raises(buffer)
  THEN /\ bufio' = ReadDone(io, kind, "exc", buffer)
       /\ UNCHANGED buffer
  ELSE IF kind = "exactly" /\ buffer.eof /\ buffer.read_available < n
  THEN /\ bufio' = ReadDone(io, kind, "incomplete", buffer)
       /\ UNCHANGED buffer
  ELSE LET m == IF kind = "into" /\ buffer.eof THEN Min(buffer.read_available, n) ELSE n
       IN  IF m = 0
           THEN /\ bufio' = ReadDone(io, kind, "ok", buffer)
                /\ UNCHANGED buffer
           ELSE /\ buffer' = Buffer_read(buffer, m)
                /\ bufio' = [ReadDone(io, kind, "ok", Buffer_read(buffer, m)) EXCEPT
                               !.got = @ \o ReadBytes(buffer, m),
                               !.prod.woken = (io.prod.pc = "blocked")]

\* the consumer calls read_into(buffer, n)
BufReadInto ==
  /\ buffer # <<>>
  /\ bufio.cons.pc = "idle"
  /\ \E n \in 0..buffer.limit : ReadStep(bufio, "into", n)
  /\ UNCHANGED <<gConn, fb, gObj>>

\* the consumer calls read_into_exactly(buffer, n)
BufReadIntoExactly ==
  /\ buffer # <<>>
  /\ bufio.cons.pc = "idle"
  /\ \E n \in 0..buffer.limit : ReadStep(bufio, "exactly", n)
  /\ UNCHANGED <<gConn, fb, gObj>>

\* write_signal.wait() has returned: the read goes round its loop
BufReadResume ==
  /\ buffer # <<>>
  /\ bufio.cons.pc = "blocked"
  /\ bufio.cons.woken
  /\ ReadStep(bufio, bufio.cons.kind, bufio.cons.n)
  /\ UNCHANGED <<gConn, fb, gObj>>

\* feed_eof(): eof = True; write_available = 0; write_signal.set()
BufFeedEof ==
  /\ buffer # <<>>
  /\ buffer' = [buffer EXCEPT !.eof = TRUE, !.write_available = 0, !.write_signal = TRUE]
  /\ bufio' = [bufio EXCEPT !.cons.woken = (bufio.cons.pc = "blocked")]
  /\ UNCHANGED <<gConn, fb, gObj>>

\* set_exception(exc): exc = exc; write_available = 0; write_signal.set()
BufSetException ==
  /\ buffer # <<>>
  /\ buffer' = [buffer EXCEPT !.exc = "e", !.write_available = 0, !.write_signal = TRUE]
  /\ bufio' = [bufio EXCEPT !.cons.woken = (bufio.cons.pc = "blocked")]
  /\ UNCHANGED <<gConn, fb, gObj>>

NextBuffer ==
  \/ BufWrite
  \/ BufWriteResume
  \/ BufReadInto
  \/ BufReadIntoExactly
  \/ BufReadResume
  \/ BufFeedEof
  \/ BufSetException

SpecBuffer == InitBuffer /\ [][NextBuffer]_vars

\* the event loop runs every task whose wait has returned
SpecBufferFair ==
  SpecBuffer /\ WF_vars(BufWriteResume) /\ WF_vars(BufReadResume)

\* ------------------------------------------- the writer's control frames
\* WebSocketWriter.ping, pong and close, and Client.close, each called once
\* on a writer of its own with nothing else running.

\* the lengths of the payloads and reasons handed over: short ones, and
\* those within MaxOver of MAX_LEN_7
CtlLens == {0, 1} \cup ((MAX_LEN_7 - MaxOver)..(MAX_LEN_7 + MaxOver))

WriterCall(op, code, length, payload) ==
  [op |-> op, code |-> code, length |-> length, payload |-> payload]

\* ping(payload), pong(length, payload) with a length of the caller's choice,
\* close(code, reason) and Client.close(code, reason)
WriterCalls ==
       {WriterCall("ping", 0, n, Filler(n)) : n \in CtlLens}
  \cup {WriterCall("pong", 0, l, Filler(n)) : l \in CtlLens, n \in CtlLens}
  \cup {WriterCall(op, c, 0, Filler(n)) :
          op \in {"close", "cclose"}, c \in {NO_STATUS, NORMAL, PROTOCOL_ERROR}, n \in CtlLens}

InitWriter ==
  /\ InitConn("msg")
  /\ fb = <<>>
  /\ buffer = <<>>
  /\ bufio = <<>>
  /\ wr \in {[call |-> c, out |-> <<>>, closed |-> FALSE, latch |-> FALSE, res |-> "none"] :
               c \in WriterCalls}
  /\ fw = <<>>
  /\ ck = <<>>
  /\ srv = <<>>
  /\ hs = <<>>

\* WebSocketWriter.ping(payload): over MAX_LEN_7 it raises, else it writes
\* write_frame(b'\x89', payload, len(payload)) and drains
WriterPing ==
  /\ wr.res = "none"
  /\ wr.call.op = "ping"
  /\ wr' = IF Len(wr.call.payload) > MAX_LEN_7
           THEN [wr EXCEPT !.res = "raise"]
           ELSE [wr EXCEPT !.out = Append(@, write_frame(<<137>>, wr.call.payload,
                                                         Len(wr.call.payload))),
                           !.res = "ok"]
  /\ UNCHANGED <<gConn, fb, buffer, bufio, fw, ck, srv, hs>>

\* WebSocketWriter.pong(length, payload): write_frame(b'\x8A', payload, length); drain
WriterPong ==
  /\ wr.res = "none"
  /\ wr.call.op = "pong"
  /\ wr' = [wr EXCEPT !.out = Append(@, PongFrameBytes(wr.call.payload, wr.call.length)),
                      !.res = "ok"]
  /\ UNCHANGED <<gConn, fb, buffer, bufio, fw, ck, srv, hs>>

\* WebSocketWriter.close(code, reason) on writer w: the empty frame for
\* NO_STATUS; else it raises if 2 + len(reason) > MAX_LEN_7, and writes
\* code + reason otherwise; closed = True after the drain
Writer_close(w, code, reason) ==
  IF code # NO_STATUS /\ 2 + Len(reason) > MAX_LEN_7
  THEN [w EXCEPT !.res = "raise"]
  ELSE [w EXCEPT !.out = Append(@, CloseFrameBytes(code, reason)),
                 !.closed = TRUE,
                 !.res = "ok"]

WriterClose ==
  /\ wr.res = "none"
  /\ wr.call.op = "close"
  /\ wr' = Writer_close(wr, wr.call.code, wr.call.payload)
  /\ UNCHANGED <<gConn, fb, buffer, bufio, fw, ck, srv, hs>>

\* Client.close(code, reason): the latch is set, then writer.close is awaited
ClientClose ==
  /\ wr.res = "none"
  /\ wr.call.op = "cclose"
  /\ wr' = Writer_close([wr EXCEPT !.latch = TRUE], wr.call.code, wr.call.payload)
  /\ UNCHANGED <<gConn, fb, buffer, bufio, fw, ck, srv, hs>>

NextWriter ==
  \/ WriterPing
  \/ WriterPong
  \/ WriterClose
  \/ ClientClose

SpecWriter == InitWriter /\ [][NextWriter]_vars

\* ------------------------------------------------ feed and feed_worker
\* WebSocketWriter.feed writes what it reads from a message reader into a
\* Buffer of chunksize * buffer_multiplier bytes, piece by piece, and ends
\* with feed_eof; feed_worker, a task of its own, reads the Buffer chunk by
\* chunk and writes one frame per read.  Either may run whenever it is not
\* waiting on the other's signal.

\* at_eof that looks at the eof flag only
at_eof_IgnoresData(b) == b.eof

\* Buffer.at_eof: return self.eof and self.read_available == 0
at_eof(b) == b.eof /\ b.read_available = 0

\* feed_worker: (op_code | fin << 7) for the first frame, (fin << 7) after it
FeedHeader(op, fin, first) ==
  (IF first THEN op ELSE 0) + (IF fin THEN HEADER_FIN_SET ELSE 0)

InitFeed ==
  /\ InitConn("msg")
  /\ fb = <<>>
  /\ bufio = <<>>
  /\ wr = <<>>
  /\ ck = <<>>
  /\ srv = <<>>
  /\ hs = <<>>
  /\ \E chunksize \in 1..MaxChunk, multiplier \in 1..MaxMultiplier, op \in {OP_TEXT, OP_BINARY} :
       /\ buffer = NewBuffer(chunksize * multiplier)
       /\ fw = [chunksize |-> chunksize, op |-> op,
                prod |-> "idle", pdata |-> <<>>, pwoken |-> FALSE, offered |-> 0, written |-> 0,
                wpc |-> "read", wwoken |-> FALSE, first |-> TRUE, frames |-> <<>>,
                future |-> "pending"]

\* feed: await buffer.write(data) from write's loop on
FeedWriteStep(f, data) ==
  IF buffer.write_available < Len(data)
  THEN /\ fw' = [f EXCEPT !.prod = "blocked", !.pdata = data, !.pwoken = FALSE]
       /\ UNCHANGED buffer
  ELSE /\ buffer' = Buffer_write(buffer, data)
       /\ fw' = [f EXCEPT !.prod = "idle", !.pdata = <<>>, !.pwoken = FALSE,
                          !.written = @ + Len(data),
                          !.wwoken = @ \/ (f.wpc = "blocked")]

\* feed: while not reader.at_eof(): await buffer.write(await reader.read(chunksize))
FeedWrite ==
  /\ fw.prod = "idle"
  /\ \E length \in 0..Min(fw.chunksize, MaxStream - fw.offered) :
       FeedWriteStep([fw EXCEPT !.offered = @ + length], StreamBytes(fw.offered, length))
  /\ UNCHANGED <<gConn, fb, bufio, wr, ck, srv, hs>>

\* read_signal.wait() has returned in buffer.write
FeedWriteResume ==
  /\ fw.prod = "blocked"
  /\ fw.pwoken
  /\ FeedWriteStep(fw, fw.pdata)
  /\ UNCHANGED <<gConn, fb, bufio, wr, ck, srv, hs>>

\* feed: the reader is at eof; buffer.feed_eof(); return writing_future
FeedEof ==
  /\ fw.prod = "idle"
  /\ buffer' = [buffer EXCEPT !.eof = TRUE, !.write_available = 0, !.write_signal = TRUE]
  /\ fw' = [fw EXCEPT !.prod = "done", !.wwoken = @ \/ (fw.wpc = "blocked")]
  /\ UNCHANGED <<gConn, fb, bufio, wr, ck, srv, hs>>

\* feed_worker: length = await buffer.read_into(data, chunksize) from
\* read_into's loop on; fin = buffer.at_eof(); self.write_frame(header,
\* data[:length], length); the loop ends with the frame that has fin
WorkerStep(f) ==
  IF ReadWaits(buffer, f.chunksize)
  THEN /\ fw' = [f EXCEPT !.wpc = "blocked", !.wwoken = buffer.write_signal]
       /\ UNCHANGED buffer
  ELSE IF Raises(buffer)
  THEN /\ fw' = [f EXCEPT !.wpc = "done", !.future = "exc"]
       /\ UNCHANGED buffer
  ELSE LET length == IF buffer.eof THEN Min(buffer.read_available, f.chunksize)
                     ELSE f.chunksize
           data == IF length = 0 THEN <<>> ELSE ReadBytes(buffer, length)
           b == IF length = 0 THEN buffer ELSE Buffer_read(buffer, length)
           fin == at_eof(b)
       IN  /\ buffer' = b
           /\ fw' = [f EXCEPT !.frames = Append(@, write_frame(<<FeedHeader(f.op, fin, f.first)>>,
                                                               data, length)),
                              !.first = FALSE,
                              !.wpc = IF fin THEN "drain" ELSE "read",
                              !.wwoken = FALSE,
                              !.pwoken = @ \/ (length > 0 /\ f.prod = "blocked")]

WorkerRead ==
  /\ fw.wpc = "read"
  /\ WorkerStep(fw)
  /\ UNCHANGED <<gConn, fb, bufio, wr, ck, srv, hs>>

\* write_signal.wait() has returned in read_into
WorkerResume ==
  /\ fw.wpc = "blocked"
  /\ fw.wwoken
  /\ WorkerStep(fw)
  /\ UNCHANGED <<gConn, fb, bufio, wr, ck, srv, hs>>

\* feed_worker: await self.writer.drain(); writing_future.set_result(None)
WorkerDrain ==
  /\ fw.wpc = "drain"
  /\ fw' = [fw EXCEPT !.wpc = "done", !.future = "done"]
  /\ UNCHANGED <<gConn, fb, buffer, bufio, wr, ck, srv, hs>>

NextFeed ==
  \/ FeedWrite
  \/ FeedWriteResume
  \/ FeedEof
  \/ WorkerRead
  \/ WorkerResume
  \/ WorkerDrain

SpecFeed == InitFeed /\ [][NextFeed]_vars

\* ------------------------------------------- one payload, chunk by chunk
\* The payload of one masked frame on its way from the transport to the
\* application: WebSocketReader.feed reads it in chunks and puts them on the
\* que (at most QUE_MAXSIZE of them), the processor unmasks each chunk and
\* feeds it to the StreamReader's buffer, and the application reads from
\* there when it chooses to.

\* payload lengths around the chunk boundaries, and one of MaxChunks full
\* chunks and a byte
PayloadLens ==
  {0, 1, 3, 4, 5, BUFFER_SIZE - 1, BUFFER_SIZE, BUFFER_SIZE + 1, 2 * BUFFER_SIZE,
   2 * BUFFER_SIZE + 3, MaxChunks * BUFFER_SIZE + 1}

\* the payload c of length n, and the bytes pos + 1 .. pos + size of
\* mask(m, c) as the peer puts them on the wire: octet i of the payload
\* XOR octet i mod 4 of the key (RFC 6455, 5.3)
PayloadByte(i) == (i * 7) % 256
ChunkPayload(n) == [i \in 1..n |-> PayloadByte(i)]
MaskedBytes(mask, pos, size) ==
  [i \in 1..size |-> BitXor(PayloadByte(pos + i), mask[((pos + i - 1) % 4) + 1])]

\* chunks one byte short of BUFFER_SIZE
ChunkSizeOdd(phase, left) ==
  IF phase = 3 THEN left ELSE Min(BUFFER_SIZE - 1, left)

\* feed: the size of the next read: min(BUFFER_SIZE, left_to_read) first (1),
\* BUFFER_SIZE in the while loop (2), left_to_read at the end (3)
ChunkSize(phase, left) ==
  IF phase = 1 THEN Min(BUFFER_SIZE, left)
  ELSE IF phase = 2 THEN BUFFER_SIZE
  ELSE left

InitChunks ==
  /\ InitConn("msg")
  /\ fb = <<>>
  /\ buffer = <<>>
  /\ bufio = <<>>
  /\ wr = <<>>
  /\ fw = <<>>
  /\ srv = <<>>
  /\ hs = <<>>
  /\ \E n \in PayloadLens, k \in 1..2 :
       ck = [mask |-> MaskKey(k), n |-> n,
             pos |-> 0, left |-> n, phase |-> 1, fpc |-> "rd", pend |-> <<>>,
             que |-> <<>>, buf |-> <<>>, ngot |-> 0]

\* feed: await reader.readexactly(size)
ChunkRead ==
  /\ ck.fpc = "rd"
  /\ LET size == ChunkSize(ck.phase, ck.left)
     IN  ck' = [ck EXCEPT !.pend = MaskedBytes(ck.mask, ck.pos, size),
                          !.pos = @ + size,
                          !.fpc = "put"]
  /\ UNCHANGED <<gConn, fb, buffer, bufio, wr, fw, srv, hs>>

\* feed: await self.que.put((chunk, size, mask)); left_to_read -= size; on
\* to the while loop, to the trailing read, or return
ChunkPut ==
  /\ ck.fpc = "put"
  /\ Len(ck.que) < QUE_MAXSIZE
  /\ LET left == ck.left - Len(ck.pend)
         more == ck.phase # 3 /\ left > 0
     IN  ck' = [ck EXCEPT !.que = Append(@, [data |-> ck.pend, length |-> Len(ck.pend)]),
                          !.pend = <<>>,
                          !.left = left,
                          !.phase = IF ~more THEN 0 ELSE IF left > BUFFER_SIZE THEN 2 ELSE 3,
                          !.fpc = IF more THEN "rd" ELSE "done"]
  /\ UNCHANGED <<gConn, fb, buffer, bufio, wr, fw, srv, hs>>

\* process_binary: data, length, mask = await self.que.get(); for i in
\* range(length): data[i] ^= mask[i % 4]; self.feed_data(data)
ProcessChunk ==
  /\ ck.que # <<>>
  /\ ck' = [ck EXCEPT !.que = Tail(@),
                      !.buf = @ \o Unmask(Head(ck.que).data, Head(ck.que).length, ck.mask)]
  /\ UNCHANGED <<gConn, fb, buffer, bufio, wr, fw, srv, hs>>

\* the application: await reader.read(BUFFER_SIZE) with bytes in the buffer
StreamRead ==
  /\ ck.buf # <<>>
  /\ ck' = [ck EXCEPT !.ngot = @ + Min(BUFFER_SIZE, Len(ck.buf)),
                      !.buf = Drop(@, BUFFER_SIZE)]
  /\ UNCHANGED <<gConn, fb, buffer, bufio, wr, fw, srv, hs>>

NextChunks ==
  \/ ChunkRead
  \/ ChunkPut
  \/ ProcessChunk
  \/ StreamRead

SpecChunks == InitChunks /\ [][NextChunks]_vars

\* ------------------------------------------------------ the server
\* WebSocketServer: the clients mapping, and for every peer its
\* socket_connect task, its connect_client task and the disconnect_client
\* task made for it by disconnect_all.  The frame loop of a connection is
\* reduced to what it does to the server: it may close the connection with a
\* Reason of its own, and it ends, for whatever cause.
Peers == 1..MaxPeers

\* socket_connect: sc is "none" before the peer connects, "hs" in
\* handle_handshake, "loop" in the frame loop, "done" after the finally
\* clause; cc is the connect_client task ("cb": in on_connection); disc is the
\* disconnect_client task, pre what server_has_initiated_close was when the
\* task was made
NewConn ==
  [sc |-> "none", cc |-> "none", tclosed |-> FALSE, latch |-> FALSE, frames |-> <<>>,
   disc |-> "none", pre |-> FALSE]

InitServer ==
  /\ InitConn("msg")
  /\ fb = <<>>
  /\ buffer = <<>>
  /\ bufio = <<>>
  /\ wr = <<>>
  /\ fw = <<>>
  /\ ck = <<>>
  /\ hs = <<>>
  /\ srv = [conn |-> [p \in Peers |-> NewConn], clients |-> {}, sd |-> "none"]

\* asyncio.start_server: a peer connects and socket_connect starts
Accept(p) ==
  /\ srv.conn[p].sc = "none"
  /\ srv.sd = "none"
  /\ srv' = [srv EXCEPT !.conn[p].sc = "hs"]
  /\ UNCHANGED <<gConn, fb, buffer, bufio, wr, fw, ck, hs>>

\* finally: writer.close(); self.delete_client(addr, port)
Finally(sv, p) ==
  [sv EXCEPT !.conn[p].sc = "done", !.conn[p].tclosed = TRUE, !.clients = @ \ {p}]

\* state = await self.handle_handshake(reader, writer): OPEN, then the Client
\* is made and loop.create_task(self.connect_client(client)); anything else
\* (CLOSING, an exception) leads to the finally clause
Handshake(p) ==
  /\ srv.conn[p].sc = "hs"
  /\ \E open \in BOOLEAN :
       srv' = IF open THEN [srv EXCEPT !.conn[p].sc = "loop", !.conn[p].cc = "cb"]
              ELSE Finally(srv, p)
  /\ UNCHANGED <<gConn, fb, buffer, bufio, wr, fw, ck, hs>>

\* connect_client: on_connection has returned;
\* self.clients[client.addr, client.port] = client
ConnectClient(p) ==
  /\ srv.conn[p].cc = "cb"
  /\ srv' = [srv EXCEPT !.conn[p].cc = "done", !.clients = @ \cup {p}]
  /\ UNCHANGED <<gConn, fb, buffer, bufio, wr, fw, ck, hs>>

\* Client.close(code, reason) on the connection c.  A Reason is written as
\* its code and the reason; disconnect_client hands over the bytes
\* Reasons.NORMAL.value.code, and WebSocketWriter.close's close_code.code
\* raises AttributeError for them, after the latch was set
Server_close(c, isReason, code, reason) ==
  IF c.latch THEN [c |-> c, raised |-> FALSE]
  ELSE IF isReason
       THEN [c |-> [c EXCEPT !.latch = TRUE,
                             !.frames = Append(@, CloseFrameBytes(code, reason))],
             raised |-> FALSE]
       ELSE [c |-> [c EXCEPT !.latch = TRUE], raised |-> TRUE]

\* the frame loop closes the connection: client.close(Reasons.PROTOCOL_ERROR.value, ...)
LoopClose(p) ==
  /\ srv.conn[p].sc = "loop"
  /\ ~srv.conn[p].latch
  /\ srv' = [srv EXCEPT !.conn[p] =
               Server_close(@, TRUE, PROTOCOL_ERROR, R_InvalidOpcode).c]
  /\ UNCHANGED <<gConn, fb, buffer, bufio, wr, fw, ck, hs>>

\* the frame loop ends (state CLOSING after the peer's Close, an exception of
\* a handler, the end of the stream) and the finally clause runs
LoopEnd(p) ==
  /\ srv.conn[p].sc = "loop"
  /\ srv' = Finally(srv, p)
  /\ UNCHANGED <<gConn, fb, buffer, bufio, wr, fw, ck, hs>>

\* __exit__: disconnect_all: asyncio.wait(map(self.disconnect_client,
\* self.clients.values()), timeout=timeout) makes a task per registered
\* client; with no client asyncio.wait fails on its assertion that the set is
\* not empty, or, with assertions compiled out, waits for the timeout
Shutdown ==
  /\ srv.sd = "none"
  /\ \E sd \in (IF srv.clients = {} THEN {"exc", "wait"} ELSE {"wait"}) :
       srv' = [srv EXCEPT !.sd = sd,
                          !.conn = [p \in Peers |->
                                      IF p \in srv.clients
                                      THEN [srv.conn[p] EXCEPT !.disc = "run",
                                                               !.pre = srv.conn[p].latch]
                                      ELSE srv.conn[p]]]
  /\ UNCHANGED <<gConn, fb, buffer, bufio, wr, fw, ck, hs>>

\* disconnect_client: await client.close(code, reason) with the default
\* code=Reasons.NORMAL.value.code; del self.clients[client.addr, client.port]
DisconnectClient(p) ==
  /\ srv.conn[p].disc = "run"
  /\ LET r == Server_close(srv.conn[p], FALSE, NORMAL, <<>>)
     IN  srv' = IF r.raised \/ p \notin srv.clients
                THEN [srv EXCEPT !.conn[p] = [r.c EXCEPT !.disc = "exc"]]
                ELSE [srv EXCEPT !.conn[p] = [r.c EXCEPT !.disc = "done"],
                                 !.clients = @ \ {p}]
  /\ UNCHANGED <<gConn, fb, buffer, bufio, wr, fw, ck, hs>>

\* disconnect_all: asyncio.wait returns, every task done or the timeout
\* over; the pending ones are cancelled
Join ==
  /\ srv.sd = "wait"
  /\ srv' = [srv EXCEPT !.sd = "done",
                        !.conn = [p \in Peers |->
                                    IF srv.conn[p].disc = "run"
                                    THEN [srv.conn[p] EXCEPT !.disc = "cancelled"]
                                    ELSE srv.conn[p]]]
  /\ UNCHANGED <<gConn, fb, buffer, bufio, wr, fw, ck, hs>>

NextServer ==
  \/ \E p \in Peers : Accept(p)
  \/ \E p \in Peers : Handshake(p)
  \/ \E p \in Peers : ConnectClient(p)
  \/ \E p \in Peers : LoopClose(p)
  \/ \E p \in Peers : LoopEnd(p)
  \/ Shutdown
  \/ \E p \in Peers : DisconnectClient(p)
  \/ Join

SpecServer == InitServer /\ [][NextServer]_vars

\* ------------------------------------------------------ the handshake
\* http/handshake.py and WebSocketServer.handle_handshake.  A decoded line is
\* the sequence of its characters.
newline == <<"\r", "\n">>
sep == <<":", " ">>
methods == {<<"G", "E", "T">>}
protocols == {<<"H", "T", "T", "P", "/", "1", ".", "1">>}
supported_ws_versions == {13}

\* what is written to the transport: BadRequestException.RESPONSE, and
\* WebSocketConnection.response, of which the status line and the key its
\* Sec-WebSocket-Accept is computed from are kept
RESPONSE == [line |-> "HTTP/1.1 400 Bad Request\r\n", accept_of |-> <<>>]
response(key) == [line |-> "HTTP/1.1 101 Switching Protocols\r\n", accept_of |-> key]

UpperCase == <<"A", "B", "C", "D", "E", "F", "G", "H", "I", "J", "K", "L", "M", "N", "O", "P", "Q", "R", "S", "T", "U", "V", "W", "X", "Y", "Z">>
LowerCase == <<"a", "b", "c", "d", "e", "f", "g", "h", "i", "j", "k", "l", "m", "n", "o", "p", "q", "r", "s", "t", "u", "v", "w", "x", "y", "z">>
Digits == <<"0", "1", "2", "3", "4", "5", "6", "7", "8", "9">>

\* str.lower
lower(s) ==
  [i \in 1..Len(s) |->
     IF \E k \in 1..Len(UpperCase) : UpperCase[k] = s[i]
       THEN LowerCase[CHOOSE k \in 1..Len(UpperCase) : UpperCase[k] = s[i]]
       ELSE s[i]]

\* s[:-2]
DropLast2(s) == IF Len(s) > 2 THEN SubSeq(s, 1, Len(s) - 2) ELSE <<>>

StartsAt(s, sp, i) ==
  /\ i + Len(sp) - 1 <= Len(s)
  /\ \A j \in 1..Len(sp) : s[i + j - 1] = sp[j]

FindSep(s, sp) ==
  IF \E i \in 1..Len(s) : StartsAt(s, sp, i)
    THEN CHOOSE i \in 1..Len(s) : StartsAt(s, sp, i) /\ \A j \in 1..(i - 1) : ~StartsAt(s, sp, j)
    ELSE 0

\* str.split(sp, maxsplit)
RECURSIVE split(_, _, _)
split(s, sp, maxsplit) ==
  LET i == FindSep(s, sp)
  IN  IF maxsplit = 0 \/ i = 0
        THEN <<s>>
        ELSE <<SubSeq(s, 1, i - 1)>> \o split(SubSeq(s, i + Len(sp), Len(s)), sp, maxsplit - 1)

\* int(s) of a string of decimal digits; any other string is a ValueError
\* (ok is FALSE)
RECURSIVE DecimalValue(_)
DecimalValue(s) ==
  IF s = <<>> THEN 0
  ELSE 10 * DecimalValue(SubSeq(s, 1, Len(s) - 1))
         + ((CHOOSE k \in 1..Len(Digits) : Digits[k] = s[Len(s)]) - 1)

int(s) ==
  IF s # <<>> /\ \A i \in 1..Len(s) : \E k \in 1..Len(Digits) : Digits[k] = s[i]
    THEN [ok |-> TRUE, val |-> DecimalValue(s)]
    ELSE [ok |-> FALSE, val |-> 0]

\* the requests a peer sends: a request line, header lines in any of a few
\* spellings, and the empty line, which a peer that stops early never sends
GET == <<"G", "E", "T">>
HTTP11 == <<"H", "T", "T", "P", "/", "1", ".", "1">>
RequestLines ==
  {<<"G", "E", "T", " ", "/", " ", "H", "T", "T", "P", "/", "1", ".", "1", "\r", "\n">>,
   <<"P", "O", "S", "T", " ", "/", " ", "H", "T", "T", "P", "/", "1", ".", "1", "\r", "\n">>,
   <<"G", "E", "T", " ", "/", " ", "H", "T", "T", "P", "/", "1", ".", "0", "\r", "\n">>,
   <<"G", "E", "T", " ", "/", "\r", "\n">>,
   <<"G", "E", "T", "\r", "\n">>}
ConnectionLines ==
  {<<>>,
   <<<<"C", "o", "n", "n", "e", "c", "t", "i", "o", "n", ":", " ", "u", "p", "g", "r", "a", "d", "e", "\r", "\n">>>>,
   <<<<"C", "o", "n", "n", "e", "c", "t", "i", "o", "n", ":", " ", "U", "p", "g", "r", "a", "d", "e", "\r", "\n">>>>,
   <<<<"C", "o", "n", "n", "e", "c", "t", "i", "o", "n", ":", " ", "c", "l", "o", "s", "e", "\r", "\n">>>>}
UpgradeLines ==
  {<<>>,
   <<<<"U", "p", "g", "r", "a", "d", "e", ":", " ", "w", "e", "b", "s", "o", "c", "k", "e", "t", "\r", "\n">>>>,
   <<<<"U", "p", "g", "r", "a", "d", "e", ":", " ", "h", "2", "c", "\r", "\n">>>>}
KeyLines ==
  {<<>>,
   <<<<"S", "e", "c", "-", "W", "e", "b", "S", "o", "c", "k", "e", "t", "-", "K", "e", "y", ":", " ", "a", "\r", "\n">>>>}
VersionLines ==
  {<<>>,
   <<<<"S", "e", "c", "-", "W", "e", "b", "S", "o", "c", "k", "e", "t", "-", "V", "e", "r", "s", "i", "o", "n", ":", " ", "1", "3", "\r", "\n">>>>,
   <<<<"S", "e", "c", "-", "W", "e", "b", "S", "o", "c", "k", "e", "t", "-", "V", "e", "r", "s", "i", "o", "n", ":", " ", "8", "\r", "\n">>>>,
   <<<<"S", "e", "c", "-", "W", "e", "b", "S", "o", "c", "k", "e", "t", "-", "V", "e", "r", "s", "i", "o", "n", ":", " ", "x", "\r", "\n">>>>}
OtherLines ==
  {<<>>,
   <<<<"H", "o", "s", "t", ":", " ", "a", "\r", "\n">>>>,
   <<<<"H", "o", "s", "t", "\r", "\n">>>>,
   <<<<"X", ":", " ", "a", ":", " ", "b", "\r", "\n">>>>}

\* hs: lines are the lines still to be read, and sent all the lines of the
\* request; pc is "request" before the request line is read, "headers" in the
\* header loop, "open" when handle_handshake has returned OPEN, "closing" when
\* it has returned CLOSING, "raised" when an exception has left it, "loop"
\* once the Client exists, "done" after socket_connect's finally clause
InitHandshake ==
  /\ InitConn("msg")
  /\ fb = <<>>
  /\ buffer = <<>>
  /\ bufio = <<>>
  /\ wr = <<>>
  /\ fw = <<>>
  /\ ck = <<>>
  /\ srv = <<>>
  /\ \E r \in RequestLines, c \in ConnectionLines, u \in UpgradeLines, k \in KeyLines,
        v \in VersionLines, o \in OtherLines, last \in {<<>>, <<newline>>} :
       LET sent == <<r>> \o o \o u \o c \o k \o v \o last
       IN  hs = [sent |-> sent, lines |-> sent, pc |-> "request", attrs |-> <<>>,
                 out |-> <<>>, client |-> FALSE, tclosed |-> FALSE]

\* except BadRequestException / IncompleteReadError / TimeoutError: the
\* response is written and CLOSING returned
BadRequest(h) == [h EXCEPT !.out = Append(@, RESPONSE), !.pc = "closing"]

\* any other exception leaves handle_handshake with nothing written
Escapes(h) == [h EXCEPT !.pc = "raised"]

\* Request.__init__
Request(h, request_line) ==
  LET parts == split(request_line, <<" ">>, Len(request_line))
  IN  IF parts[1] \notin methods THEN BadRequest(h)
      ELSE IF Len(parts) < 3 THEN Escapes(h)
      ELSE IF DropLast2(parts[3]) \notin protocols THEN BadRequest(h)
      ELSE [h EXCEPT !.pc = "headers"]

\* Request.header
header(h, line) ==
  LET parts == split(line, sep, 2)
  IN  IF Len(parts) # 2 THEN Escapes(h)
      ELSE [h EXCEPT !.attrs = [x \in DOMAIN h.attrs \cup {parts[1]} |->
                                   IF x = parts[1] THEN DropLast2(parts[2]) ELSE h.attrs[x]]]

validate_header(attrs, name, value) == name \in DOMAIN attrs /\ lower(attrs[name]) = value

\* Request.validate_websocket_request and WebSocketConnection.__init__
validate_websocket_request(h) ==
  IF ~validate_header(h.attrs, <<"C", "o", "n", "n", "e", "c", "t", "i", "o", "n">>, <<"u", "p", "g", "r", "a", "d", "e">>) THEN BadRequest(h)
  ELSE IF ~validate_header(h.attrs, <<"U", "p", "g", "r", "a", "d", "e">>, <<"w", "e", "b", "s", "o", "c", "k", "e", "t">>) THEN BadRequest(h)
  ELSE IF <<"S", "e", "c", "-", "W", "e", "b", "S", "o", "c", "k", "e", "t", "-", "K", "e", "y">> \notin DOMAIN h.attrs THEN BadRequest(h)
  ELSE IF <<"S", "e", "c", "-", "W", "e", "b", "S", "o", "c", "k", "e", "t", "-", "V", "e", "r", "s", "i", "o", "n">> \notin DOMAIN h.attrs THEN BadRequest(h)
  ELSE LET version == int(h.attrs[<<"S", "e", "c", "-", "W", "e", "b", "S", "o", "c", "k", "e", "t", "-", "V", "e", "r", "s", "i", "o", "n">>])
       IN  IF ~version.ok THEN Escapes(h)
           ELSE IF version.val \notin supported_ws_versions THEN BadRequest(h)
           ELSE [h EXCEPT !.out = Append(@, response(h.attrs[<<"S", "e", "c", "-", "W", "e", "b", "S", "o", "c", "k", "e", "t", "-", "K", "e", "y">>])), !.pc = "open"]

\* handle_handshake: the request line
ReadRequestLine ==
  /\ hs # <<>>
  /\ hs.pc = "request"
  /\ hs' = Request([hs EXCEPT !.lines = Tail(@)], Head(hs.lines))
  /\ UNCHANGED <<gConn, fb, buffer, bufio, wr, fw, ck, srv>>

\* handle_handshake: one header line
ReadHeader ==
  /\ hs # <<>>
  /\ hs.pc = "headers"
  /\ hs.lines # <<>>
  /\ Head(hs.lines) # newline
  /\ hs' = header([hs EXCEPT !.lines = Tail(@)], Head(hs.lines))
  /\ UNCHANGED <<gConn, fb, buffer, bufio, wr, fw, ck, srv>>

\* handle_handshake: the empty line ends the headers
EndOfHeaders ==
  /\ hs # <<>>
  /\ hs.pc = "headers"
  /\ hs.lines # <<>>
  /\ Head(hs.lines) = newline
  /\ hs' = validate_websocket_request([hs EXCEPT !.lines = Tail(@)])
  /\ UNCHANGED <<gConn, fb, buffer, bufio, wr, fw, ck, srv>>

\* handle_handshake: the peer sends no further line (IncompleteReadError when
\* it has closed, TimeoutError after a second when it has not)
IncompleteRead ==
  /\ hs # <<>>
  /\ hs.pc = "headers"
  /\ hs.lines = <<>>
  /\ hs' = BadRequest(hs)
  /\ UNCHANGED <<gConn, fb, buffer, bufio, wr, fw, ck, srv>>

\* socket_connect: state is OPEN, the Client is created
CreateClient ==
  /\ hs # <<>>
  /\ hs.pc = "open"
  /\ hs' = [hs EXCEPT !.client = TRUE, !.pc = "loop"]
  /\ UNCHANGED <<gConn, fb, buffer, bufio, wr, fw, ck, srv>>

\* socket_connect: state is not OPEN, or the exception passes through; the
\* finally clause closes the transport
FailedHandshake ==
  /\ hs # <<>>
  /\ hs.pc \in {"closing", "raised"}
  /\ hs' = [hs EXCEPT !.tclosed = TRUE, !.pc = "done"]
  /\ UNCHANGED <<gConn, fb, buffer, bufio, wr, fw, ck, srv>>

NextHandshake ==
  \/ ReadRequestLine
  \/ ReadHeader
  \/ EndOfHeaders
  \/ IncompleteRead
  \/ CreateClient
  \/ FailedHandshake

SpecHandshake == InitHandshake /\ [][NextHandshake]_vars

\* ------------------------------------------- the length field of write_frame
\* write_frame with a length of any size.  Python's integers are unbounded:
\* a length is the sequence of its nine base-256 digits, most significant
\* first, which holds every value up to 2^72 - 1.
Wide(n) == ToBytes(n, 9)

\* a > b for two lengths
RECURSIVE WideGreater(_, _)
WideGreater(a, b) ==
  IF a = <<>> THEN FALSE
  ELSE IF Head(a) # Head(b) THEN Head(a) > Head(b)
  ELSE WideGreater(Tail(a), Tail(b))

\* WebSocketWriter.MAX_LEN_64 = (1 << 64) - 1
MAX_LEN_64 == <<0, 255, 255, 255, 255, 255, 255, 255, 255>>

\* length.to_bytes(n, 'big') of a length that fits n bytes
WideToBytes(length, n) == SubSeq(length, 9 - n + 1, 9)

\* WebSocketWriter.write_frame(header, data, length)
write_frame_wide(hdr, data, length) ==
  IF WideGreater(length, MAX_LEN_64)
    THEN [raised |-> TRUE, frame |-> <<>>]
  ELSE IF WideGreater(length, Wide(MAX_LEN_16))
    THEN [raised |-> FALSE, frame |-> hdr \o <<LENGTH_OVER_16>> \o WideToBytes(length, 8) \o data]
  ELSE IF WideGreater(length, Wide(MAX_LEN_7))
    THEN [raised |-> FALSE, frame |-> hdr \o <<LENGTH_OVER_7>> \o WideToBytes(length, 2) \o data]
  ELSE [raised |-> FALSE, frame |-> hdr \o WideToBytes(length, 1) \o data]

\* lengths around every boundary of the encoding: 125/126, 65535/65536,
\* 2^63 - 1 / 2^63 and 2^64 - 1 / 2^64
WideLengths ==
  { <<top, d8, mid, mid, mid, mid, d3, d2, d1>> :
      top \in {0, 1}, d8 \in {0, 127, 128, 255}, mid \in {0, 255}, d3 \in {0, 1},
      d2 \in {0, 1, 255}, d1 \in {0, 125, 126, 255} }

\* a writer about to be handed a frame's header and length (pong hands over a
\* length of the caller's choice)
InitLength ==
  /\ InitConn("msg")
  /\ fb = <<>>
  /\ buffer = <<>>
  /\ bufio = <<>>
  /\ wr \in {[header |-> <<h>>, length |-> l, out |-> <<>>, res |-> "none"] :
               h \in {OP_BINARY + HEADER_FIN_SET, OP_PONG + HEADER_FIN_SET}, l \in WideLengths}
  /\ fw = <<>>
  /\ ck = <<>>
  /\ srv = <<>>
  /\ hs = <<>>

\* write_frame: the frame is written to the transport, or the call raises
WriteFrame ==
  /\ wr.res = "none"
  /\ LET r == write_frame_wide(wr.header, <<>>, wr.length)
     IN  wr' = IF r.raised THEN [wr EXCEPT !.res = "raise"]
               ELSE [wr EXCEPT !.out = Append(@, r.frame), !.res = "ok"]
  /\ UNCHANGED <<gConn, fb, buffer, bufio, fw, ck, srv, hs>>

NextLength == WriteFrame

SpecLength == InitLength /\ [][NextLength]_vars

\* ------------------------------------------------------------- Buffer.read
\* Buffer.read(n, chunksize) with n >= 0: a bytearray of n zeros is filled by
\* read_into calls with an offset.  The producer writes the bytes of its
\* stream whenever they fit; each read_into returns once its bytes are there.

\* buffer[i:j] = src on a bytearray: the slice is cut to the length of the
\* bytearray, and the bytearray shrinks or grows to take src
SliceAssign(dst, i, j, src) ==
  LET lo == Min(i, Len(dst))
      hi == IF Min(j, Len(dst)) < lo THEN lo ELSE Min(j, Len(dst))
  IN  SubSeq(dst, 1, lo) \o src \o SubSeq(dst, hi + 1, Len(dst))

\* read_into(buffer, n, offset): what the copy makes of the destination
ReadIntoDest(b, dst, n, offset) ==
  LET tail == b.read_head + n
      remaining == b.limit - b.read_head
  IN  IF tail > b.limit
      THEN SliceAssign(SliceAssign(dst, offset, offset + remaining,
                                   SubSeq(b.backing, b.read_head + 1, b.limit)),
                       offset + remaining, n, SubSeq(b.backing, 1, n - remaining))
      ELSE SliceAssign(dst, offset, offset + n, SubSeq(b.backing, b.read_head + 1, tail))

\* read: the count of the read_into after the loop (read_into(result, n, offset=read))
LastCount(n, read) == n

\* a Buffer whose heads stand at h, after h bytes went through it, and a
\* consumer about to call read(n, chunksize); base is where in the stream the
\* read starts, supplied what the producer has written, calls the read_into
\* calls made: count, offset, and the destination before and after
InitRead ==
  /\ InitConn("msg")
  /\ fb = <<>>
  /\ \E limit \in 1..MaxLimit : \E h \in 0..(limit - 1) :
       \E n \in 0..MaxLimit, chunksize \in 1..limit :
         /\ buffer = [NewBuffer(limit) EXCEPT !.read_head = h, !.write_head = h,
                                              !.backing = [i \in 1..limit |-> IF i <= h THEN i ELSE 0]]
         /\ bufio = [n |-> n, chunksize |-> chunksize, read |-> 0, result |-> [i \in 1..n |-> 0],
                     pc |-> "loop", base |-> h, supplied |-> h, calls |-> <<>>]
  /\ NoObj

\* the producer's write(data) of bytes that fit
ReadProduce ==
  /\ bufio.pc # "done"
  /\ \E k \in 1..Min(buffer.write_available, MaxStream + bufio.base - bufio.supplied) :
       /\ buffer' = Buffer_write(buffer, StreamBytes(bufio.supplied, k))
       /\ bufio' = [bufio EXCEPT !.supplied = @ + k]
  /\ UNCHANGED <<gConn, fb, gObj>>

\* one read_into(result, k, offset=read) of read, once k bytes are there
ReadIntoCall(k, pc) ==
  /\ buffer.read_available >= k
  /\ buffer' = Buffer_read(buffer, k)
  /\ bufio' = [bufio EXCEPT
                 !.result = ReadIntoDest(buffer, bufio.result, k, bufio.read),
                 !.read = @ + k,
                 !.pc = pc,
                 !.calls = Append(@, [k |-> k, offset |-> bufio.read, pre |-> bufio.result,
                                      post |-> ReadIntoDest(buffer, bufio.result, k, bufio.read)])]

\* while n - read > chunksize: read += await self.read_into(result, chunksize, offset=read)
ReadChunk ==
  /\ bufio.pc = "loop"
  /\ bufio.n - bufio.read > bufio.chunksize
  /\ ReadIntoCall(bufio.chunksize, "loop")
  /\ UNCHANGED <<gConn, fb, gObj>>

\* if n > 0: read += await self.read_into(result, n, offset=read); return result
ReadLast ==
  /\ bufio.pc = "loop"
  /\ ~(bufio.n - bufio.read > bufio.chunksize)
  /\ IF bufio.n > 0
       THEN ReadIntoCall(LastCount(bufio.n, bufio.read), "done")
       ELSE bufio' = [bufio EXCEPT !.pc = "done"] /\ UNCHANGED buffer
  /\ UNCHANGED <<gConn, fb, gObj>>

NextRead ==
  \/ ReadProduce
  \/ ReadChunk
  \/ ReadLast

SpecRead == InitRead /\ [][NextRead]_vars

\* ------------------------------------- a streamed message and a send
\* WebSocketWriter.feed, the feed_worker task it makes and a task that calls
\* WebSocketWriter.send, run by one event loop: the task at the head of the
\* ready queue runs up to its next await that has to wait; a task that is
\* woken goes to the end of the ready queue.  The transport may be paused,
\* and then drain waits until it is resumed.

\* the largest drain_every of WebSocketWriter.feed
MaxDrainEvery == 1

\* the task of this step, and the ready queue without it
Runs(t) == fw.cur = t \/ (fw.cur = "none" /\ fw.ready # <<>> /\ Head(fw.ready) = t)
F0 == [fw EXCEPT !.ready = IF fw.cur # "none" THEN @ ELSE Tail(@), !.cur = "none"]

\* the task goes on at pc without waiting / waits / ends
Goes(f, t, pc) == [f EXCEPT !.pc[t] = pc, !.cur = t]
Waits(f, t, pc, on) == [f EXCEPT !.pc[t] = pc, !.wait[t] = on]
Ends(f, t) == [f EXCEPT !.pc[t] = "done"]
WakeUp(f, t) == [f EXCEPT !.wait[t] = "none", !.ready = Append(@, t)]
WakeIf(f, t, on) == IF f.wait[t] = on THEN WakeUp(f, t) ELSE f

\* asyncio.Lock.release: the first waiter is woken and stays in the queue
\* until it runs
release(f) ==
  LET g == [f EXCEPT !.lock = "none"]
  IN  IF f.lockq # <<>> THEN WakeUp(g, Head(f.lockq)) ELSE g

\* StreamWriter.drain, then pc
drain(f, t, pc) ==
  IF f.paused
  THEN Waits([f EXCEPT !.drainq = Append(@, t)], t, pc, "drain")
  ELSE Goes(f, t, pc)

\* transport.write of a frame by task t
written(f, t, frame) == [f EXCEPT !.out = Append(@, [bytes |-> frame, by |-> t])]

InitOutbound ==
  /\ InitConn("msg")
  /\ fb = <<>>
  /\ bufio = <<>>
  /\ wr = <<>>
  /\ ck = <<>>
  /\ srv = <<>>
  /\ hs = <<>>
  /\ \E chunksize \in 1..MaxChunk, multiplier \in 1..MaxMultiplier,
        drain_every \in 0..MaxDrainEvery, length \in 0..MaxStream :
       /\ buffer = NewBuffer(chunksize * multiplier)
       /\ fw = [chunksize |-> chunksize, drain_every |-> drain_every, op |-> OP_TEXT,
                left |-> length, offered |-> 0, pdata |-> <<>>,
                pc |-> [feed |-> "start", worker |-> "none", send |-> "none"],
                wait |-> [feed |-> "none", worker |-> "none", send |-> "none"],
                ready |-> <<"feed">>, cur |-> "none", lock |-> "none", lockq |-> <<>>,
                paused |-> FALSE, pauses |-> 0, drainq |-> <<>>,
                first |-> TRUE, since |-> 0, out |-> <<>>, future |-> "pending"]

\* feed: buffer = Buffer(chunksize * buffer_multiplier); writing_task =
\* create_task(self.feed_worker(...))
FeedStart ==
  /\ Runs("feed")
  /\ fw.pc.feed = "start"
  /\ fw' = Goes([F0 EXCEPT !.pc.worker = "read", !.ready = Append(@, "worker")],
                "feed", "lock")
  /\ UNCHANGED <<gConn, fb, buffer, bufio, wr, ck, srv, hs>>

\* with (await self.write_lock): in feed and in send
TakeLock ==
  \E t \in {"feed", "send"} :
    /\ Runs(t)
    /\ fw.pc[t] = "lock"
    /\ fw' = IF fw.lock = "none" /\ (fw.lockq = <<>> \/ Head(fw.lockq) = t)
             THEN Goes([F0 EXCEPT !.lock = t,
                                  !.lockq = IF @ = <<>> THEN @ ELSE Tail(@)],
                       t, IF t = "feed" THEN "loop" ELSE "write")
             ELSE Waits([F0 EXCEPT !.lockq = Append(@, t)], t, "lock", "lock")
    /\ UNCHANGED <<gConn, fb, buffer, bufio, wr, ck, srv, hs>>

\* feed: while not reader.at_eof(): data = await reader.read(chunksize), at
\* once or after waiting for the reader; at eof the lock is released, then
\* buffer.feed_eof(); return writing_future
FeedLoop ==
  /\ Runs("feed")
  /\ fw.pc.feed = "loop"
  /\ IF fw.left = 0
     THEN /\ buffer' = [buffer EXCEPT !.eof = TRUE, !.write_available = 0,
                                      !.write_signal = TRUE]
          /\ fw' = Ends(WakeIf(release(F0), "worker", "write_signal"), "feed")
     ELSE /\ buffer' = buffer
          /\ \E length \in 1..Min(fw.chunksize, fw.left), now \in BOOLEAN :
               LET f == [F0 EXCEPT !.left = @ - length, !.offered = @ + length,
                                   !.pdata = StreamBytes(fw.offered, length)]
               IN  fw' = IF now THEN Goes(f, "feed", "write")
                         ELSE Waits(f, "feed", "write", "reader")
  /\ UNCHANGED <<gConn, fb, bufio, wr, ck, srv, hs>>

\* the reader has the data feed waits for
ReaderData ==
  /\ fw.cur = "none"
  /\ fw.wait.feed = "reader"
  /\ fw' = WakeUp(fw, "feed")
  /\ UNCHANGED <<gConn, fb, buffer, bufio, wr, ck, srv, hs>>

\* feed: await buffer.write(data), from the loop of write on
FeedBufWrite ==
  /\ Runs("feed")
  /\ fw.pc.feed = "write"
  /\ IF buffer.write_available < Len(fw.pdata)
     THEN /\ buffer' = buffer
          /\ fw' = Waits(F0, "feed", "write", "read_signal")
     ELSE /\ buffer' = Buffer_write(buffer, fw.pdata)
          /\ fw' = Goes(WakeIf([F0 EXCEPT !.pdata = <<>>], "worker", "write_signal"),
                        "feed", "loop")
  /\ UNCHANGED <<gConn, fb, bufio, wr, ck, srv, hs>>

\* feed_worker: length = await buffer.read_into(data, chunksize), from the
\* loop of read_into on; fin = buffer.at_eof(); self.write_frame(header,
\* data[:length], length); written_since_drain += length; after the first
\* frame: if written_since_drain > drain_every: drain
WorkerFrame ==
  /\ Runs("worker")
  /\ fw.pc.worker = "read"
  /\ IF ReadWaits(buffer, fw.chunksize)
     THEN /\ buffer' = buffer
          /\ fw' = Waits(F0, "worker", "read", "write_signal")
     ELSE IF Raises(buffer)
     THEN /\ buffer' = buffer
          /\ fw' = Ends([F0 EXCEPT !.future = "exc"], "worker")
     ELSE LET length == IF buffer.eof THEN Min(buffer.read_available, fw.chunksize)
                        ELSE fw.chunksize
              data == IF length = 0 THEN <<>> ELSE ReadBytes(buffer, length)
              b == IF length = 0 THEN buffer ELSE Buffer_read(buffer, length)
              fin == at_eof(b)
              since == fw.since + length
              f == written([F0 EXCEPT !.first = FALSE, !.since = since], "worker",
                           write_frame(<<FeedHeader(fw.op, fin, fw.first)>>, data, length))
              g == IF length > 0 THEN WakeIf(f, "feed", "read_signal") ELSE f
          IN  /\ buffer' = b
              /\ fw' = Goes(g, "worker",
                            IF fin THEN "last"
                            ELSE IF ~fw.first /\ since > fw.drain_every THEN "drain"
                            ELSE "read")
  /\ UNCHANGED <<gConn, fb, bufio, wr, ck, srv, hs>>

\* feed_worker: await self.writer.drain(); written_since_drain = 0
WorkerDrains ==
  /\ Runs("worker")
  /\ fw.pc.worker = "drain"
  /\ fw' = drain([F0 EXCEPT !.since = 0], "worker", "read")
  /\ UNCHANGED <<gConn, fb, buffer, bufio, wr, ck, srv, hs>>

\* feed_worker, after the frame with fin: await self.writer.drain()
WorkerLast ==
  /\ Runs("worker")
  /\ fw.pc.worker = "last"
  /\ fw' = drain(F0, "worker", "set")
  /\ UNCHANGED <<gConn, fb, buffer, bufio, wr, ck, srv, hs>>

\* feed_worker: writing_future.set_result(None)
WorkerEnd ==
  /\ Runs("worker")
  /\ fw.pc.worker = "set"
  /\ fw' = Ends([F0 EXCEPT !.future = "done"], "worker")
  /\ UNCHANGED <<gConn, fb, buffer, bufio, wr, ck, srv, hs>>

\* a task of the application calls client.writer.send(b'hi')
AppSend ==
  /\ fw.cur = "none"
  /\ fw.pc.send = "none"
  /\ fw' = [fw EXCEPT !.pc.send = "lock", !.ready = Append(@, "send")]
  /\ UNCHANGED <<gConn, fb, buffer, bufio, wr, ck, srv, hs>>

\* send: self.write_frame((kind.value | HEADER_FIN_SET), data, len(data));
\* await self.writer.drain()
SendFrame ==
  /\ Runs("send")
  /\ fw.pc.send = "write"
  /\ fw' = drain(written(F0, "send",
                         write_frame(<<OP_BINARY + HEADER_FIN_SET>>, <<104, 105>>, 2)),
                 "send", "unlock")
  /\ UNCHANGED <<gConn, fb, buffer, bufio, wr, ck, srv, hs>>

\* send: the with block ends, the lock is released
SendEnd ==
  /\ Runs("send")
  /\ fw.pc.send = "unlock"
  /\ fw' = Ends(release(F0), "send")
  /\ UNCHANGED <<gConn, fb, buffer, bufio, wr, ck, srv, hs>>

\* the transport's buffer passes the high-water mark: pause_writing
PauseWriting ==
  /\ fw.cur = "none"
  /\ ~fw.paused
  /\ fw.pauses < MaxPauses
  /\ fw' = [fw EXCEPT !.paused = TRUE, !.pauses = @ + 1]
  /\ UNCHANGED <<gConn, fb, buffer, bufio, wr, ck, srv, hs>>

\* resume_writing: the tasks waiting in drain are woken
RECURSIVE WakeAll(_, _)
WakeAll(f, q) == IF q = <<>> THEN f ELSE WakeAll(WakeUp(f, Head(q)), Tail(q))

ResumeWriting ==
  /\ fw.cur = "none"
  /\ fw.paused
  /\ fw' = WakeAll([fw EXCEPT !.paused = FALSE, !.drainq = <<>>], fw.drainq)
  /\ UNCHANGED <<gConn, fb, buffer, bufio, wr, ck, srv, hs>>

NextOutbound ==
  \/ FeedStart
  \/ TakeLock
  \/ FeedLoop
  \/ ReaderData
  \/ FeedBufWrite
  \/ WorkerFrame
  \/ WorkerDrains
  \/ WorkerLast
  \/ WorkerEnd
  \/ AppSend
  \/ SendFrame
  \/ SendEnd
  \/ PauseWriting
  \/ ResumeWriting

SpecOutbound == InitOutbound /\ [][NextOutbound]_vars

\* ------------------------------------------------------------------ claims
\* C1: when the peer's Close frame (FIN=1, masked, at most 125 bytes, a valid
\* code) is handled and handle_close finds that the server has not initiated
\* close, then by the time the state is CLOSING (and so before the transport
\* writer is closed) exactly one close frame is on the wire, written by the
\* handler of that frame, it carries the peer's code (1000 for an empty
\* payload), and the writer's close has returned from drain (closed = True).
\* The application closes through Client.close only (not scenario "raw").
C1_CloseEchoedBeforeClosing ==
  scen # "raw" =>
    \A i \in DOMAIN log :
      LET f == peer.sent[i]
      IN  (/\ f.op = OP_CLOSE /\ f.fin = 1 /\ f.rsv = 0 /\ f.masked
           /\ ValidClosePayload(f.payload)
           /\ log[i].initiated
           /\ (state = "CLOSING" \/ tclosed))
          => /\ \E k \in DOMAIN out :
                  /\ IsCloseOut(out[k])
                  /\ out[k].by = 1
                  /\ out[k].fr = i
                  /\ CloseCodeOut(out[k]) = EchoCode(f.payload)
             /\ Cardinality(CloseFramesOut) = 1
             /\ wclosed

\* an empty Close frame was answered and the state is CLOSING
C1_Witness ==
  \E i \in DOMAIN log :
    /\ peer.sent[i].op = OP_CLOSE
    /\ peer.sent[i].payload = <<>>
    /\ log[i].initiated
    /\ state = "CLOSING"
    /\ \E k \in DOMAIN out : CloseCodeOut(out[k]) = NORMAL


\* C2: once server_has_initiated_close is true the only frame written is the
\* single close frame of that close: every write made with the latch set is
\* a close frame, and there is at most one such write.
C2_OnlyCloseAfterLatch ==
  \A k \in DOMAIN out :
    out[k].latched =>
      /\ IsCloseOut(out[k])
      /\ \A m \in DOMAIN out : out[m].latched => m = k

\* C3: WebSocketWriter.close is an idempotent latch: however often it is
\* called on the writer, at most one close frame appears on the wire.
C3_WriterCloseOnce == Cardinality(CloseFramesOut) <= 1

\* frame i breaks the fragmentation order: (a) Text/Binary while
\* continuation != NONE, (b) Continuation while continuation == NONE
OrderViolation(i) ==
  LET f == peer.sent[i]
  IN  /\ f.rsv = 0
      /\ f.masked
      /\ \/ f.op \in {OP_TEXT, OP_BINARY} /\ log[i].cont # "NONE"
         \/ f.op = OP_CONTINUATION /\ log[i].cont = "NONE"

\* C4 as stated: a fragmentation-order violation that arrives while
\* server_has_initiated_close is false has, when its handler returns, a close
\* frame with code 1002 on the wire, its payload consumed, no on_message
\* task and, in case (a), the exception set on the reader in progress.
C4_Original ==
  \A i \in DOMAIN log :
    (OrderViolation(i) /\ log[i].ret) =>
      /\ \A t \in DOMAIN tasks : tasks[t].kind = "onmsg" => tasks[t].fr # i
      /\ log[i].pos = WireLen(i)
      /\ ~log[i].latch0 =>
           \E k \in DOMAIN out : /\ IsCloseOut(out[k])
                                 /\ CloseCodeOut(out[k]) = PROTOCOL_ERROR
      /\ peer.sent[i].op # OP_CONTINUATION => readers[log[i].cur].excset

\* C4 (amended): a fragmentation-order violation never schedules on_message;
\* when its handler has returned, the frame has been read from the transport
\* to its last byte, a close has been initiated and, if it was this handler's
\* close task that found the latch unset, its close frame with code 1002 is on
\* the wire; in case (a) set_exception was called on the reader in progress.
C4_OrderViolation ==
  \A i \in DOMAIN log :
    OrderViolation(i) =>
      /\ \A t \in DOMAIN tasks : tasks[t].kind = "onmsg" => tasks[t].fr # i
      /\ log[i].ret =>
           /\ log[i].pos = WireLen(i)
           /\ latch
           /\ latchBy.tid = log[i].ctask =>
                \E k \in DOMAIN out : /\ out[k].by = log[i].ctask
                                      /\ IsCloseOut(out[k])
                                      /\ CloseCodeOut(out[k]) = PROTOCOL_ERROR
           /\ peer.sent[i].op # OP_CONTINUATION => readers[log[i].cur].excset

\* an unexpected Continuation was answered with 1002 and, later, a Text frame
\* that arrived inside a message was rejected
C4_Witness ==
  \E i, j \in DOMAIN log :
    /\ OrderViolation(i) /\ peer.sent[i].op = OP_CONTINUATION
    /\ latchBy.tid = log[i].ctask
    /\ OrderViolation(j) /\ peer.sent[j].op = OP_TEXT
    /\ log[j].ret

\* frames i..j are one message: an initial Text/Binary frame dispatched with
\* continuation == NONE, then Continuation frames, only the last with FIN=1
CleanMessage(i, j) ==
  /\ i <= j
  /\ j <= Len(log)
  /\ peer.sent[i].op \in {OP_TEXT, OP_BINARY}
  /\ log[i].cont = "NONE"
  /\ \A k \in i..j : /\ peer.sent[k].rsv = 0
                     /\ peer.sent[k].masked
                     /\ peer.sent[k].fin = (IF k = j THEN 1 ELSE 0)
                     /\ k > i => peer.sent[k].op = OP_CONTINUATION

RECURSIVE Payload(_, _)
\* the concatenated payloads of frames i..j
Payload(i, j) == IF i > j THEN <<>> ELSE Payload(i, j - 1) \o peer.sent[j].payload

IsPrefix(a, b) == Len(a) <= Len(b) /\ a = Take(b, Len(a))

\* C5 as stated: for every partition of b into the frames of one message, once
\* the loop is idle the reader handed to on_message has received exactly b
\* and then EOF.
C5_Original ==
  \A i, j \in DOMAIN log :
    (CleanMessage(i, j) /\ log[j].ret /\ Quiescent) =>
      /\ readers[log[i].rid].recv = Payload(i, j)
      /\ readers[log[i].rid].recvEnd = "eof"

\* C5 (amended): what the reader of a message has received is always a prefix
\* of the message's payload in wire order; once the loop is idle after the
\* FIN frame, a Binary message, or a Text message whose payload is valid
\* UTF-8, has delivered exactly b and then EOF, whatever the partition, and a
\* Text message whose payload is not valid UTF-8 has ended with the exception.
C5_PartitionEquivalence ==
  \A i, j \in DOMAIN log :
    CleanMessage(i, j) =>
      LET r == readers[log[i].rid]
          b == Payload(i, j)
          ok == peer.sent[i].op = OP_BINARY \/ ValidUtf8(b)
      IN  /\ log[i].rid # 0 => IsPrefix(r.recv, b)
          /\ (log[j].ret /\ Quiescent) =>
               IF ok THEN r.recv = b /\ r.recvEnd = "eof"
               ELSE r.recvEnd = "exc"

\* a two-byte character split over two frames has been delivered whole
C5_Witness ==
  \E i, j \in DOMAIN log :
    /\ CleanMessage(i, j)
    /\ Quiescent
    /\ j > i
    /\ readers[log[i].rid].recv = <<195, 169>>
    /\ readers[log[i].rid].recvEnd = "eof"

\* frame i is an initial data frame that handle_data accepts
AcceptedInitial(i) ==
  /\ peer.sent[i].op \in {OP_TEXT, OP_BINARY}
  /\ peer.sent[i].rsv = 0
  /\ log[i].cont = "NONE"

OnMessageTasks(i) == {t \in DOMAIN tasks : tasks[t].kind = "onmsg" /\ tasks[t].fr = i}

AtFrameBoundary == tasks[1].kind = "main" /\ tasks[1].pc = "loop" /\ state # "CLOSING"

\* C7: at every frame boundary continuation != NONE iff there is a current
\* message reader on which neither done() nor set_exception has been called.
C7_ContinuationIffReader ==
  AtFrameBoundary =>
    ((continuation # "NONE") <=>
       (/\ cur_reader # 0
        /\ readers[cur_reader].dones = 0
        /\ ~readers[cur_reader].excset))

\* C8: once the loop is idle, with the transport writable, after the peer has
\* sent a text message with a malformed UTF-8 sequence up to its FIN frame,
\* the reader has been given the decode error and a close has been
\* initiated; if no other close came first, the close frame with code 1007
\* is on the wire.
C8_MalformedUtf8Closes ==
  \A i, j \in DOMAIN peer.sent :
    (/\ CleanMessage(i, j)
     /\ peer.sent[i].op = OP_TEXT
     /\ Decode(0, Payload(i, j)) = DecBad
     /\ ~log[i].latch0
     /\ Quiescent
     /\ ~paused) =>
      /\ readers[log[i].rid].exc = "unicode"
      /\ latch
      /\ latchBy.code = INCONSISTENT_DATA =>
           \E k \in DOMAIN out : /\ IsCloseOut(out[k])
                                 /\ CloseCodeOut(out[k]) = INCONSISTENT_DATA

RECURSIVE PayloadFed(_, _)
\* the payloads, in wire order, of the first n frames that were fed to reader r
PayloadFed(r, n) ==
  IF n = 0 THEN <<>>
  ELSE PayloadFed(r, n - 1) \o
         (IF log[n].rid = r /\ log[n].branch \in {"data_ok", "cont_ok"}
          THEN peer.sent[n].payload ELSE <<>>)

\* C9: the reader of a text message gets a clean EOF only if the payload of
\* all its frames is valid, complete UTF-8; a text message whose FIN frame
\* ends inside a multi-byte sequence never gets one, and once the loop is
\* idle its reader has the exception.
C9_CleanEofOnlyIfValid ==
  /\ \A r \in DOMAIN readers :
       (readers[r].msg /\ readers[r].kind = "TEXT" /\ readers[r].cleaneof) =>
         ValidUtf8(PayloadFed(r, Len(log)))
  /\ \A i, j \in DOMAIN log :
       (/\ CleanMessage(i, j)
        /\ peer.sent[i].op = OP_TEXT
        /\ Decode(0, Payload(i, j)) \notin {0, DecBad}
        /\ log[j].ret) =>
         /\ ~readers[log[i].rid].cleaneof
         /\ Quiescent => readers[log[i].rid].excset

\* a text message ended at FIN after the lead byte 0xC3 and its reader got
\* the exception; another text message got its clean EOF
C9_Witness ==
  /\ Quiescent
  /\ \E i, j \in DOMAIN log :
       /\ CleanMessage(i, j)
       /\ Payload(i, j) = <<195>>
       /\ log[j].ret
       /\ readers[log[i].rid].excset
  /\ \E r \in DOMAIN readers : readers[r].msg /\ readers[r].kind = "TEXT" /\ readers[r].cleaneof

\* frame i is a Ping or Pong that is fragmented or too long, received while
\* server_has_initiated_close was false
BadControl(i) ==
  /\ peer.sent[i].op \in {OP_PING, OP_PONG}
  /\ peer.sent[i].rsv = 0
  /\ peer.sent[i].masked
  /\ peer.sent[i].fin = 0 \/ Len(peer.sent[i].payload) > MAX_LEN_7
  /\ ~log[i].latch0

\* C10 as stated: such a frame never has an on_ping/on_pong task, and when
\* its handler has returned the frame has been read to its last byte and the
\* handler's close frame with code 1002 is on the wire.
C10_Original ==
  \A i \in DOMAIN log :
    BadControl(i) =>
      /\ \A t \in DOMAIN tasks : tasks[t].kind \in {"onping", "onpong"} => tasks[t].fr # i
      /\ log[i].ret =>
           /\ log[i].pos = WireLen(i)
           /\ \E k \in DOMAIN out : /\ out[k].fr = i
                                    /\ IsCloseOut(out[k])
                                    /\ CloseCodeOut(out[k]) = PROTOCOL_ERROR

\* the Client.close awaited by the handler of frame i found the latch unset
HandlerClosed(i) == latchBy.tid = 1 /\ latchBy.fr = i

\* C10 (amended): such a frame never has an on_ping/on_pong task; when its
\* handler has returned the frame has been read to its last byte and a close
\* has been initiated; the handler's close frame with code 1002 is on the
\* wire if the handler's Client.close found the latch unset, which it always
\* does for a frame with FIN=0.
C10_BadControlFrame ==
  \A i \in DOMAIN log :
    BadControl(i) =>
      /\ \A t \in DOMAIN tasks : tasks[t].kind \in {"onping", "onpong"} => tasks[t].fr # i
      /\ log[i].ret =>
           /\ log[i].pos = WireLen(i)
           /\ latch
           /\ peer.sent[i].fin = 0 => HandlerClosed(i)
           /\ HandlerClosed(i) =>
                \E k \in DOMAIN out : /\ out[k].fr = i
                                      /\ out[k].by = 1
                                      /\ IsCloseOut(out[k])
                                      /\ CloseCodeOut(out[k]) = PROTOCOL_ERROR

\* a Ping of 126 bytes was read to its end and answered with 1002
C10_Witness ==
  \E i \in DOMAIN log :
    /\ BadControl(i)
    /\ Len(peer.sent[i].payload) > MAX_LEN_7
    /\ log[i].ret
    /\ HandlerClosed(i)
    /\ \E k \in DOMAIN out : out[k].fr = i /\ CloseCodeOut(out[k]) = PROTOCOL_ERROR

\* frame i is a valid Ping received inside a fragmented message while
\* server_has_initiated_close was false
ValidPingMid(i) ==
  /\ peer.sent[i].op = OP_PING
  /\ peer.sent[i].fin = 1
  /\ peer.sent[i].rsv = 0
  /\ peer.sent[i].masked
  /\ Len(peer.sent[i].payload) <= MAX_LEN_7
  /\ ~log[i].latch0
  /\ log[i].cont # "NONE"

OnPingTasks(i) == {t \in DOMAIN tasks : tasks[t].kind = "onping" /\ tasks[t].fr = i}

\* frames s..j are the frames of one message, from its accepted initial frame
\* to its FIN frame, with nothing but valid Pings between its fragments
MessageWithPings(s, j) ==
  /\ s < j
  /\ log[s].branch = "data_ok"
  /\ log[j].branch = "cont_ok" /\ log[j].rid = log[s].rid /\ peer.sent[j].fin = 1
  /\ \A k \in (s + 1)..(j - 1) :
       \/ log[k].branch = "cont_ok" /\ peer.sent[k].fin = 0
       \/ log[k].branch = "pp_ok" /\ ValidPingMid(k)

\* C11: a valid Ping inside a fragmented message has at most one on_ping task,
\* and exactly one when its handler has returned; the handler leaves
\* continuation and _reader as they were and calls neither done() nor
\* set_exception on the message reader; by the time the loop has dispatched
\* the next frame the Pong with the identical payload is on the wire; and a
\* message whose fragments are separated by such Pings delivers the
\* concatenation of its fragments and then EOF when that is valid UTF-8.
C11_PingInsideMessage ==
  /\ \A i \in DOMAIN log :
       ValidPingMid(i) =>
         /\ Cardinality(OnPingTasks(i)) <= 1
         /\ log[i].ret =>
              /\ Cardinality(OnPingTasks(i)) = 1
              /\ log[i].contR = log[i].cont
              /\ log[i].curR = log[i].cur
              /\ log[i].finR = log[i].fin0
         /\ Len(log) > i =>
              \E k \in DOMAIN out :
                /\ out[k].fr = i
                /\ out[k].by \in OnPingTasks(i)
                /\ out[k].bytes = <<138, Len(peer.sent[i].payload)>> \o peer.sent[i].payload
  /\ \A s, j \in DOMAIN log :
       (/\ MessageWithPings(s, j)
        /\ \E k \in s..j : ValidPingMid(k)
        /\ log[j].ret
        /\ Quiescent
        /\ peer.sent[s].op = OP_BINARY \/ ValidUtf8(PayloadFed(log[s].rid, j))) =>
         /\ readers[log[s].rid].recv = PayloadFed(log[s].rid, j)
         /\ readers[log[s].rid].recvEnd = "eof"

\* a text message with a Ping between its two fragments was delivered whole
\* after the Pong had been written
C11_Witness ==
  \E s, j \in DOMAIN log :
    /\ MessageWithPings(s, j)
    /\ \E k \in s..j : ValidPingMid(k) /\ OnPingTasks(k) # {}
    /\ Quiescent
    /\ readers[log[s].rid].recv = <<195, 169>>
    /\ readers[log[s].rid].recvEnd = "eof"
    /\ \E k \in DOMAIN out : out[k].bytes = <<138, 4, 112, 105, 110, 103>>

\* C12: Reason.from_bytes returns NO_STATUS for an empty payload and
\* PROTOCOL_ERROR 'invalid close code length' for one byte; a payload of two
\* bytes or more is accepted (its code and reason returned) exactly when the
\* code is at least 1000, is none of 1004, 1005, 1006, 1015, lies in neither
\* 1012..1014 nor 1016..2999, and the rest is valid UTF-8; every other
\* payload yields PROTOCOL_ERROR (1002).
C12_FromBytes ==
  fb # <<>> /\ fb.res # NoResult =>
    LET n == Len(fb.data)
        c == fb.data[1] * 256 + fb.data[2]
        rest == SubSeq(fb.data, 3, n)
        accepted == /\ c >= 1000
                    /\ c \notin {1004, 1005, 1006, 1015}
                    /\ c \notin (1012..1014) \cup (1016..2999)
                    /\ ValidUtf8(rest)
    IN  /\ n = 0 => fb.res = <<1005, <<>> >>
        /\ n = 1 => fb.res = <<1002, R_InvalidCodeLength>>
        /\ n >= 2 /\ accepted => fb.res = <<c, rest>>
        /\ n >= 2 /\ ~accepted =>
             /\ fb.res[1] = 1002
             /\ fb.res[2] \in {R_InvalidCode, R_InvalidUtf8}

\* code 3000, the first one above the undefined range, was accepted with its
\* reason
C12_Witness ==
  /\ fb # <<>>
  /\ fb.data = <<11, 184, 97>>
  /\ fb.res = <<3000, <<97>> >>

\* frame i is a Close frame of the peer handled by handle_close after the
\* server had initiated close: the latch was set when the frame was
\* dispatched, or the handler has returned without initiating close itself
CloseAfterInitiated(i) ==
  /\ peer.sent[i].op = OP_CLOSE
  /\ log[i].branch = "close"
  /\ log[i].latch0 \/ (log[i].ret /\ ~log[i].initiated)

\* the peer's Close frames handled after the server initiated close write
\* no frame; once their handler has returned the state is CLOSING; when
\* nothing is left to run the loop has ended and the transport writer is
\* closed, with at most one close frame on the wire (the application's
\* direct writer.close apart)
C13_CloseAfterInitiated ==
  \A i \in DOMAIN log :
    CloseAfterInitiated(i) =>
      /\ ~log[i].initiated
      /\ \A k \in DOMAIN out : ~(out[k].by = 1 /\ out[k].fr = i)
      /\ log[i].ret => state = "CLOSING"
      /\ Quiescent =>
           /\ log[i].ret
           /\ state = "CLOSING"
           /\ IsDone(tasks[1])
           /\ tclosed
           /\ scen # "raw" => Cardinality(CloseFramesOut) <= 1

\* C13: a Close frame of the peer that arrives after the server has initiated
\* close makes handle_close write no second close frame and set the state to
\* CLOSING, after which the loop ends and the transport writer is closed; and
\* in every step a state that is CLOSING stays CLOSING.
C13_ClosingIsFinal ==
  /\ []C13_CloseAfterInitiated
  /\ [][state = "CLOSING" => state' = "CLOSING"]_vars

\* after an invalid opcode was answered with a close frame, the peer's Close
\* ended the connection with that single close frame on the wire
C13_Witness ==
  \E i \in DOMAIN log :
    /\ CloseAfterInitiated(i)
    /\ log[i].latch0
    /\ Quiescent
    /\ tclosed
    /\ state = "CLOSING"
    /\ Cardinality(CloseFramesOut) = 1

\* C14: when a frame with the MASK bit clear has been received before the
\* server initiated close, the transport writer is not closed unless a close
\* frame with code 1002 has been written.
C14_UnmaskedClosesWith1002 ==
  \A i \in DOMAIN log :
    (~peer.sent[i].masked /\ ~log[i].latch0 /\ tclosed) =>
      \E k \in DOMAIN out : IsCloseOut(out[k]) /\ CloseCodeOut(out[k]) = PROTOCOL_ERROR

\* C15: when the connection has been terminated (the transport writer is
\* closed) with a message in progress and nothing is left to run, the
\* reader of that message has been given an exception or EOF.
C15_ReaderReleasedAtTermination ==
  (Quiescent /\ tclosed /\ continuation # "NONE") =>
    \/ readers[cur_reader].eof
    \/ readers[cur_reader].exc # "none"

\* C16: the bytes returned by the reads of the consumer are, in order, the
\* first bytes written by the producer: byte k of what was read is byte k of
\* the stream, and no more was read than was written.
C16_BufferFifo ==
  buffer # <<>> =>
    /\ Len(bufio.got) <= bufio.written
    /\ \A k \in DOMAIN bufio.got : bufio.got[k] = k

\* a Buffer of limit 3 has delivered five bytes, the last read taken from
\* both ends of backing
C16_Witness ==
  /\ buffer # <<>>
  /\ buffer.limit = 3
  /\ bufio.got = <<1, 2, 3, 4, 5>>
  /\ bufio.last.res = "ok"
  /\ bufio.last.pre[1] < buffer.limit
  /\ bufio.last.pre[1] + (bufio.last.pre[2] - bufio.last.post[2]) > buffer.limit

\* C17 as stated: in every reachable state of a Buffer, read_available +
\* write_available = limit and both heads lie in 0..limit - 1.
C17_Original ==
  buffer # <<>> =>
    /\ buffer.read_available + buffer.write_available = buffer.limit
    /\ buffer.read_head \in 0..(buffer.limit - 1)
    /\ buffer.write_head \in 0..(buffer.limit - 1)

\* C17 amended: the two counters are never negative and never add up to
\* more than limit; they add up to limit as long as neither feed_eof nor
\* set_exception has been called; both heads lie in 0..limit, limit included.
C17_BufferCounters ==
  buffer # <<>> =>
    /\ buffer.read_available >= 0
    /\ buffer.write_available >= 0
    /\ buffer.read_available + buffer.write_available <= buffer.limit
    /\ (~buffer.eof /\ buffer.exc = "none") =>
         buffer.read_available + buffer.write_available = buffer.limit
    /\ buffer.read_head \in 0..buffer.limit
    /\ buffer.write_head \in 0..buffer.limit

\* after feed_eof the counters add up to less than limit while bytes are
\* buffered, and a head rests at limit
C17_Witness ==
  /\ buffer # <<>>
  /\ buffer.eof
  /\ buffer.read_available > 0
  /\ buffer.read_available + buffer.write_available < buffer.limit
  /\ buffer.write_head = buffer.limit

\* C18: once feed_eof has been called, no step writes into the Buffer: eof
\* stays true, and backing, write_head are unchanged and read_available does
\* not grow, whatever is read.
C18_NoWriteAfterEof ==
  [][(buffer # <<>> /\ buffer.eof) =>
       /\ buffer'.eof
       /\ buffer'.backing = buffer.backing
       /\ buffer'.write_head = buffer.write_head
       /\ buffer'.read_available <= buffer.read_available]_vars

\* C19: once set_exception has been called, a reader waiting in read_into
\* or read_into_exactly has been woken, and every read that ends from then
\* on raises the exception, bytes buffered or not, and leaves read_head,
\* read_available and write_available as they were.
C19_ReadsRaiseAfterSetException ==
  buffer # <<>> =>
    /\ (buffer.exc # "none" /\ bufio.cons.pc = "blocked") => bufio.cons.woken
    /\ bufio.last.exc # "none" =>
         /\ bufio.last.res = "exc"
         /\ bufio.last.post = bufio.last.pre

\* a reader that waited for more bytes than were buffered was woken by
\* set_exception and raised, with bytes still buffered
C19_Witness ==
  /\ buffer # <<>>
  /\ bufio.last.res = "exc"
  /\ bufio.last.waited
  /\ bufio.last.pre[2] > 0
  /\ Heads(buffer) = bufio.last.pre

\* all bytes written to the transport, in order
RECURSIVE WireBytes(_)
WireBytes(k) == IF k = 0 THEN <<>> ELSE WireBytes(k - 1) \o out[k].bytes

\* bs is a concatenation of complete frames: header byte, length field (with
\* its extension and masking key if any), payload
RECURSIVE CompleteFrames(_)
CompleteFrames(bs) ==
  IF bs = <<>> THEN TRUE
  ELSE IF Len(bs) < 2 THEN FALSE
  ELSE LET l7 == bs[2] % 128
           ext == IF l7 = 127 THEN 8 ELSE IF l7 = 126 THEN 2 ELSE 0
           key == IF bs[2] >= 128 THEN 4 ELSE 0
       IN  IF Len(bs) < 2 + ext
           THEN FALSE
           ELSE LET n == IF ext = 0 THEN l7 ELSE FromBytes(SubSeq(bs, 3, 2 + ext))
                    total == 2 + ext + key + n
                IN  IF Len(bs) < total THEN FALSE
                    ELSE CompleteFrames(Drop(bs, total))

\* C20: at every moment the bytes written to the transport are a
\* concatenation of complete frames.
C20_WireIsWholeFrames == CompleteFrames(WireBytes(Len(out)))


\* C21: every control frame written by ping, pong or close has a length
\* field of at most 125 that equals the number of payload bytes that follow
\* it, and a call with an over-long payload raises and writes nothing.
C21_ControlFramesBounded ==
  wr.res # "none" =>
    /\ \A k \in DOMAIN wr.out :
         LET f == wr.out[k]
         IN  (f[1] % 16) \in {OP_CLOSE, OP_PING, OP_PONG} =>
               /\ f[2] <= MAX_LEN_7
               /\ Len(f) = 2 + f[2]
    /\ LET n == CASE wr.call.op = "ping" -> Len(wr.call.payload)
                  [] wr.call.op = "pong" -> wr.call.length
                  [] OTHER -> IF wr.call.code = NO_STATUS THEN 0 ELSE 2 + Len(wr.call.payload)
       IN  n > MAX_LEN_7 => wr.res = "raise" /\ wr.out = <<>>


\* the payloads of frames, one after the other
RECURSIVE FramePayloads(_)
FramePayloads(fs) ==
  IF fs = <<>> THEN <<>> ELSE SubSeq(Head(fs), 3, Len(Head(fs))) \o FramePayloads(Tail(fs))

\* C22: feed_worker never fails and is never left waiting once feed_eof was
\* called; frame 1 carries the data opcode and every later frame opcode 0;
\* the payloads written so far are the first bytes of what was written to the
\* Buffer; FIN is set on a frame exactly if it is the one after which the
\* worker leaves its loop, and by then the payloads are all of the bytes that
\* were written; writing_future completes when the worker has drained.
C22_FeedWorkerFrames ==
  LET done == fw.wpc \in {"drain", "done"}
      d == StreamBytes(0, fw.written)
  IN  /\ fw.future # "exc"
      /\ (fw.prod = "done" /\ fw.wpc = "blocked") => fw.wwoken
      /\ \A k \in DOMAIN fw.frames :
           /\ fw.frames[k][1] % 16 = (IF k = 1 THEN fw.op ELSE OP_CONTINUATION)
           /\ fw.frames[k][2] = Len(fw.frames[k]) - 2
           /\ (fw.frames[k][1] >= HEADER_FIN_SET) <=> (done /\ k = Len(fw.frames))
      /\ IsPrefix(FramePayloads(fw.frames), d)
      /\ done => /\ fw.frames # <<>>
                 /\ fw.prod = "done"
                 /\ FramePayloads(fw.frames) = d
      /\ (fw.future = "done") <=> (fw.wpc = "done")

\* a stream of several chunks was fed while the worker kept up with it, so
\* that the frame with FIN is an empty one, and the future has completed
C22_Witness ==
  /\ fw.future = "done"
  /\ fw.written >= 3
  /\ Len(fw.frames) >= 3
  /\ Len(fw.frames[Len(fw.frames)]) = 2


\* C23: when a fragment context that was handed the single piece b'hi' on an
\* open writer has exited and its write task has ended, exactly one frame
\* was written for it: Binary with FIN set, length 2 and the piece.
C23_FragmentFrames ==
  \A t \in DOMAIN tasks :
    (tasks[t].kind = "fragw" /\ IsDone(tasks[t]) /\ ~tclosed /\ ~wclosed) =>
      LET ws == SelectSeq(out, LAMBDA e : e.by = t)
      IN  /\ Len(ws) = 1
          /\ ws[1].bytes = write_frame(<<OP_BINARY + HEADER_FIN_SET>>, <<104, 105>>, 2)


\* C24: the bytes the processor has fed to the stream are, in order, the
\* bytes of the payload c the peer masked, from the first on (those the
\* application has read are no longer in the buffer); every chunk on the que
\* is at most BUFFER_SIZE bytes; when feed has returned and the que is empty
\* all of c has been fed, the wire bytes XOR-ed with the key at their
\* positions in the whole payload.
C24_ChunkedUnmask ==
  /\ ck.buf = SubSeq(ChunkPayload(ck.n), ck.ngot + 1, ck.ngot + Len(ck.buf))
  /\ \A k \in DOMAIN ck.que : ck.que[k].length <= BUFFER_SIZE
  /\ (ck.fpc = "done" /\ ck.que = <<>>) =>
       /\ ck.ngot + Len(ck.buf) = ck.n
       /\ ck.ngot = 0 =>
            ck.buf = Unmask(MaskedBytes(ck.mask, 0, ck.n), ck.n, ck.mask)

\* a payload of two chunks and three bytes went through whole
C24_Witness ==
  /\ ck.n = 2 * BUFFER_SIZE + 3
  /\ ck.fpc = "done"
  /\ ck.que = <<>>
  /\ ck.ngot = 0
  /\ ck.buf = ChunkPayload(ck.n)
  /\ ck.buf # MaskedBytes(ck.mask, 0, ck.n)

\* C25: once socket_connect has finished for a peer its transport writer is
\* closed and the clients mapping has no entry for the peer.
C25_NoEntryAfterFinish ==
  \A p \in Peers :
    srv.conn[p].sc = "done" => srv.conn[p].tclosed /\ p \notin srv.clients

\* C27: when the disconnect_client task that disconnect_all made for a
\* registered client has ended, and no close had been initiated for that
\* client before and its transport is open, a close frame with code 1000 and
\* an empty reason has been written to it.
C27_ShutdownCloses ==
  \A p \in Peers :
    (srv.conn[p].disc \in {"done", "exc"} /\ ~srv.conn[p].pre /\ ~srv.conn[p].tclosed) =>
       \E k \in DOMAIN srv.conn[p].frames :
          srv.conn[p].frames[k] = CloseFrameBytes(NORMAL, <<>>)

\* C28: the payload bytes read from the transport and not yet read by the
\* application never exceed QUE_MAXSIZE chunks and the chunk in flight.
C28_InboundBounded ==
  ck.pos - ck.ngot <= (QUE_MAXSIZE + 1) * BUFFER_SIZE

\* C29: a close with a reason of more than 123 bytes writes one close frame
\* with the code and the first 123 bytes of the reason and sets closed, and
\* Client.close never leaves the latch set with no close frame written.
C29_LongReasonTruncated ==
  (wr.res # "none" /\ wr.call.op \in {"close", "cclose"}) =>
    /\ (wr.call.code # NO_STATUS /\ Len(wr.call.payload) > MAX_LEN_7 - 2) =>
         /\ wr.out = <<CloseFrameBytes(wr.call.code, Take(wr.call.payload, MAX_LEN_7 - 2))>>
         /\ wr.closed
    /\ wr.latch => wr.out # <<>>

\* C26: handle_handshake writes the 101 response and returns OPEN exactly for
\* a complete request whose request line is GET with HTTP/1.1 and whose headers
\* hold Connection: upgrade and Upgrade: websocket (values compared without
\* regard to case), a Sec-WebSocket-Key and Sec-WebSocket-Version 13; every
\* other request gets exactly the 400 response, no Client, and a closed
\* transport.
HeaderSent(sent, name, value) ==
  \E i \in 2..Len(sent) : \E n \in 0..Len(sent[i]) :
     /\ Len(sent[i]) = Len(name) + 2 + n + 2
     /\ SubSeq(sent[i], 1, Len(name) + 2) = name \o sep
     /\ SubSeq(sent[i], Len(sent[i]) - 1, Len(sent[i])) = newline
     /\ value \in {<<>>, lower(SubSeq(sent[i], Len(name) + 3, Len(sent[i]) - 2))}

UpgradeRequest(sent) ==
  /\ sent[Len(sent)] = newline
  /\ sent[1] = <<"G", "E", "T", " ", "/", " ", "H", "T", "T", "P", "/", "1", ".", "1", "\r", "\n">>
  /\ HeaderSent(sent, <<"C", "o", "n", "n", "e", "c", "t", "i", "o", "n">>, <<"u", "p", "g", "r", "a", "d", "e">>)
  /\ HeaderSent(sent, <<"U", "p", "g", "r", "a", "d", "e">>, <<"w", "e", "b", "s", "o", "c", "k", "e", "t">>)
  /\ HeaderSent(sent, <<"S", "e", "c", "-", "W", "e", "b", "S", "o", "c", "k", "e", "t", "-", "K", "e", "y">>, <<>>)
  /\ HeaderSent(sent, <<"S", "e", "c", "-", "W", "e", "b", "S", "o", "c", "k", "e", "t", "-", "V", "e", "r", "s", "i", "o", "n">>, <<"1", "3">>)

C26_HandshakeIff ==
  (hs.pc \in {"loop", "done"}) =>
     IF UpgradeRequest(hs.sent)
       THEN hs.pc = "loop" /\ hs.client /\ Len(hs.out) = 1 /\ hs.out[1].line = response(<<>>).line
       ELSE hs.pc = "done" /\ ~hs.client /\ hs.tclosed /\ hs.out = <<RESPONSE>>

\* C30: a Close frame received with FIN=0 while the server has not initiated
\* close is a protocol error: the close frame the server writes for it carries
\* code 1002, not the peer's code.
FragmentedClose(i) ==
  /\ peer.sent[i].op = OP_CLOSE
  /\ peer.sent[i].fin = 0
  /\ log[i].branch = "close"
  /\ log[i].initiated
  /\ log[i].ret

C30_FragmentedCloseRejected ==
  \A i \in DOMAIN log :
    FragmentedClose(i) =>
      \A k \in DOMAIN out :
        (IsCloseOut(out[k]) /\ out[k].by = 1 /\ out[k].fr = i) =>
           CloseCodeOut(out[k]) = PROTOCOL_ERROR

\* C38: write_frame writes the shortest unmasked length field for every length
\* it accepts: one byte L for L <= 125; 126 and L in two bytes for
\* 126 <= L <= 65535; 127 and L in eight bytes, the most significant bit 0,
\* for L > 65535; and it refuses every L > 2^63 - 1, writing nothing.
LeadingZeros(length, n) == \A i \in 1..n : length[i] = 0

ShortestField(length) ==
  IF LeadingZeros(length, 8) /\ length[9] <= 125 THEN <<length[9]>>
  ELSE IF LeadingZeros(length, 7) THEN <<126, length[8], length[9]>>
  ELSE <<127>> \o SubSeq(length, 2, 9)

Over63Bits(length) == length[1] > 0 \/ length[2] >= 128

C38_ShortestLengthField ==
  (wr.res # "none") =>
     IF Over63Bits(wr.length)
       THEN wr.res = "raise" /\ wr.out = <<>>
       ELSE /\ wr.res = "ok"
            /\ wr.out = <<wr.header \o ShortestField(wr.length)>>
            /\ wr.out[1][2] < 128
            /\ (Len(wr.out[1]) = 10 => wr.out[1][3] < 128)

\* C35: no wakeup is lost in the Buffer.  A write waiting for space has been
\* woken whenever write_available >= len(data), and a read_into waiting for n
\* bytes has been woken whenever n bytes are there or EOF or an exception is
\* set; and each of them then ends its wait: the write completes unless the
\* space is taken away again, the read returns.
WriteMayGoOn == buffer.write_available >= Len(bufio.prod.data)
ReadMayGoOn ==
  buffer.read_available >= bufio.cons.n \/ buffer.eof \/ buffer.exc # "none"

C35_NoLostWakeup ==
  /\ [](bufio.prod.pc = "blocked" /\ WriteMayGoOn => bufio.prod.woken)
  /\ [](bufio.cons.pc = "blocked" /\ ReadMayGoOn => bufio.cons.woken)
  /\ (bufio.prod.pc = "blocked" /\ WriteMayGoOn) ~> (bufio.prod.pc = "idle" \/ ~WriteMayGoOn)
  /\ (bufio.cons.pc = "blocked" /\ ReadMayGoOn) ~> (bufio.cons.pc = "idle")

\* a write and a read_into have waited and been woken with their condition true
C35_Witness ==
  /\ bufio.prod.pc = "blocked" /\ bufio.prod.woken /\ WriteMayGoOn
  /\ bufio.last.kind = "into" /\ bufio.last.waited /\ bufio.last.res = "ok"

\* C36: after set_exception the producer may still write: a write of 1 to
\* limit bytes called after set_exception, on a Buffer that has not been fed
\* EOF, completes.
LateWrite ==
  /\ bufio.late
  /\ bufio.prod.pc = "blocked"
  /\ Len(bufio.prod.data) \in 1..buffer.limit
  /\ ~buffer.eof

C36_WriteAfterException == LateWrite ~> (bufio.prod.pc = "idle" \/ buffer.eof)

\* C37: Buffer.read(n), for any chunksize and any position of the heads,
\* returns exactly n bytes, the next n bytes of the stream in write order, and
\* takes exactly n bytes out of the buffer; each read_into(buffer, k, offset)
\* writes buffer[offset : offset + k] only and leaves the length of the
\* destination as it was.
OnlySlice(c) ==
  /\ Len(c.post) = Len(c.pre)
  /\ \A i \in 1..Len(c.pre) : (i <= c.offset \/ i > c.offset + c.k) => c.post[i] = c.pre[i]

C37_ReadExactlyN ==
  /\ \A j \in DOMAIN bufio.calls : OnlySlice(bufio.calls[j])
  /\ (bufio.pc = "done") =>
       /\ bufio.result = StreamBytes(bufio.base, bufio.n)
       /\ bufio.read = bufio.n
       /\ buffer.read_available = bufio.supplied - bufio.base - bufio.n

\* C34: the inbound stream stays frame-aligned: when the handler of a frame
\* returns (not by an exception), exactly the bytes of the peer's frames up to
\* and including that frame have been read from the transport.
C34_FrameAligned ==
  \A i \in DOMAIN log : log[i].ret => log[i].pos = WireLen(i)

\* the handler of a second frame has returned after a protocol error whose
\* payload was drained
C34_Witness ==
  \E i \in DOMAIN log :
    /\ i >= 2
    /\ log[i].ret
    /\ log[i].branch \in {"rsv", "undef", "data_viol", "cont_viol", "pp_long"}
    /\ peer.sent[i].payload # <<>>

\* C33: the frame loop never blocks forever on internal resources.  When no
\* task can run any more, all bytes the peer has sent have arrived and the
\* transport is writable, a task that still waits will wait forever; so in
\* every such state the handler of every frame that was dispatched has
\* returned (or an exception of the handler has ended the loop).
HandlersOver == \A i \in DOMAIN log : log[i].ret \/ IsDone(tasks[1])

C33_HandlersReturn == (Quiescent /\ ~paused) => HandlersOver

\* the tasks that run the on_closed callback
OnClosedTasks == {t \in DOMAIN tasks : tasks[t].kind = "onclosed"}

\* in this step task t enters WebSocketWriter.close
EntersWriterClose(t) ==
  /\ tasks'[t].pc = "wc_lock"
  /\ (t \in DOMAIN tasks => tasks[t].pc # "wc_lock")

\* C31: Client.close is a once-only latch: whatever tasks call Client.close on
\* one connection (protocol-error handlers, handle_close, adone after a UTF-8
\* failure, the application), the latch is never reset, a call enters
\* WebSocketWriter.close only in the step that sets the latch, at most one
\* on_closed task is made and at most one close frame is written.  The
\* application closes through Client.close only (not scenario "raw").
C31_CloseOnce ==
  /\ [](scen # "raw" => /\ Cardinality(OnClosedTasks) <= 1
                        /\ Cardinality(CloseFramesOut) <= 1)
  /\ [][latch => latch']_vars
  /\ [][scen # "raw" =>
          \A t \in DOMAIN tasks' : EntersWriterClose(t) => ~latch /\ latch']_vars

\* a second Client.close call is about to test the latch that another call
\* has set, and that call's close frame is written
C31_Witness ==
  /\ scen # "raw"
  /\ latch
  /\ Cardinality(OnClosedTasks) = 1
  /\ Cardinality(CloseFramesOut) = 1
  /\ \E t \in DOMAIN tasks : tasks[t].pc = "cc" /\ t # latchBy.tid

\* the opcode and the fin bit of a frame written to the transport
OutOp(o) == BitAnd(o.bytes[1], OP_CODE_BITS)
OutFin(o) == o.bytes[1] >= HEADER_FIN_SET

\* C32: outbound messages are not interleaved: between the first fragment
\* (FIN=0) that feed_worker writes for a streamed message and that message's
\* FIN fragment, no Text or Binary frame of a concurrent send is written to
\* the transport, in every interleaving of feed, feed_worker and the sender,
\* also after feed has released the write lock.
C32_NoInterleave ==
  \A i, j \in DOMAIN fw.out :
    (/\ i < j
     /\ fw.out[i].by = "worker"
     /\ OutOp(fw.out[i]) = fw.op
     /\ ~OutFin(fw.out[i])
     /\ fw.out[j].by = "send"
     /\ OutOp(fw.out[j]) \in {OP_TEXT, OP_BINARY})
    => \E k \in (i + 1)..(j - 1) : fw.out[k].by = "worker" /\ OutFin(fw.out[k])

====
